---- MODULE Spec2Model ----
(***************************************************************************)
(* Model of the jabber-bot webhook Delivery Queue                          *)
(* (internal/webhook/service.go): the running flag, the bounded message    *)
(* channel, the worker goroutines spawned by Start, the retry loop of      *)
(* sendWebhook and the statistics written by updateStats.                  *)
(*                                                                         *)
(* Goroutines interleave at the points where the Go code can be            *)
(* descheduled with an observable effect: SendMessage releases the         *)
(* running-flag lock before it reaches its select, the worker blocks in    *)
(* its select, in the HTTP round trip and in time.Sleep.  Start and Stop   *)
(* run under s.mu and are atomic.  A panic (send on a closed channel,      *)
(* close of a closed channel) ends the process: no action is enabled.      *)
(*                                                                         *)
(* The module also models, each under a specification of its own over the  *)
(* same variables: the health check (HealthSpec), the fan-in of            *)
(* Manager.mergeChannels (MergeSpec), and the XMPP side, i.e. the          *)
(* Connection Registry of internal/xmpp/manager.go with its Client, the    *)
(* non-reentrant locks m.mu and c.mu, the inbound handler and the          *)
(* reconnection monitor (XmppSpec, XmppFairSpec, ReconnectSpec).           *)
(* Further specifications: the inbound pipeline from the client's handler  *)
(* to the delivery worker (PipelineSpec), TestModeUtils with a model of    *)
(* the net/url calls it makes (TestModeSpec), one sendWebhook call with    *)
(* the text of its body and URL (DeliverySpec), and the status endpoint of *)
(* the API beside the Delivery Queue (StatusSpec).                         *)
(* The Delivery Queue and the reconnection monitor with scheduling         *)
(* fairness (FairSpec, MonitorFairSpec), the forwarding loop of the        *)
(* Dispatch Manager over a stream its caller owns (LoopSpec,               *)
(* LoopFairSpec), Manager.Start followed call by call (RegistrySpec), and  *)
(* the four mutexes with every lock and unlock as a step (LockSpec).       *)
(***************************************************************************)
EXTENDS Integers, Sequences, FiniteSets, TLC

\* ---------------------------------------------------------------- bounds
MaxMsgs == 2      \* messages handed to SendMessage past the running check
QueueCap == 1     \* capacity of messageQueue (1000 in NewService, 2 in the queue-full test)
MaxStarts == 2    \* successful Start calls, i.e. worker goroutines ever spawned
MaxRetry == 2     \* largest configured retry_attempts
MaxOutcomes == 12 \* outcomes recorded in the health specification
NumSources == 2   \* source channels handed to mergeChannels
MaxPerSource == 2 \* messages one source emits before it closes
SourceCap == 1    \* capacity of a source channel (10 in the merge test, 100 in NewClient)
MessageChanCap == 2 \* capacity of Client.messageChan (100 in NewClient)
MaxStops == 2     \* calls of Manager.Stop
MaxDisconnects == 2 \* direct calls of Client.Disconnect
MaxReconnect == 2 \* largest configured reconnection.max_attempts
MaxCycles == 2    \* reconnection cycles followed in the reconnection specification
MaxInbound == 3   \* stanzas the inbound handler receives in the pipeline specification
WebhookChanCap == 1 \* capacity of xmpp Manager.webhookChan (1000 in NewManager)
MaxParts == 3     \* pieces a message body is made of in the test-mode specifications
MaxSegments == 2  \* segments of a URL path in the test-mode specification

\* IsHealthy's failure threshold.
FailureThreshold == 10

Msgs == 1..MaxMsgs
Workers == 1..MaxStarts
Sources == 1..NumSources

\* HTTP status codes a webhook endpoint answers with (both edges of [200,300)).
Statuses == {199, 200, 299, 300}

VARIABLES
    config,       \* [URL, RetryAttempts]: the immutable settings snapshot
    running,      \* Service.running
    queue,        \* buffered content of Service.messageQueue
    closed,       \* messageQueue has been closed
    cancelFunc,   \* Service.cancelFunc: 0 = nil, else the worker whose ctx it cancels
    cancelled,    \* cancelled[w]: the ctx of worker w is done
    worker,       \* worker[w]: [pc, msg, attempt, lastErr] of the w-th processWebhooks goroutine
    started,      \* number of goroutines spawned so far
    sender,       \* [pc, msg]: the caller inside SendMessage
    nextMsg,      \* next fresh message
    ret,          \* [op, err, early, seq]: the last completed API call
    stats,        \* Service.stats
    now,          \* clock read by updateStats
    panicked,     \* "none" or the runtime panic that ended the process
    deq,          \* deq[m]: times m was received from the channel
    reqs,         \* reqs[m]: HTTP requests issued for m
    sleeps,       \* sleeps[m]: backoff sleeps (seconds) taken for m
    rejected,     \* messages SendMessage refused with the queue-full error
    lastAttempt,  \* [msg, attempt, outcome] of the latest sendWebhookAttempt
    lastOutcome,  \* "none", "success" or "failure": what the latest updateStats recorded
    health        \* [result, seq]: the value of the latest IsHealthy call

\* mergeChannels
VARIABLES
    channels,     \* channels[i]: [len, sent, buf, closed] of the i-th source channel
    forwarder,    \* forwarder[i]: [pc, msg] of the goroutine ranging over channels[i]
    wg,           \* the WaitGroup counter
    closer,       \* "wait" or "done": the goroutine that closes output
    outputClosed, \* times close(output) ran
    reader,       \* "reading" or "done": the consumer of output
    merged        \* what the consumer received from output, in order

mvars == <<channels, forwarder, wg, closer, outputClosed, reader, merged>>

\* The Connection Registry (xmpp.Manager) and its default Connection Client.
VARIABLES
    reconnection, \* [Enabled, MaxAttempts]: config.Reconnection
    clients,      \* Manager.clients: the registered client names
    mmu,          \* Manager.mu: Free or the goroutine holding it
    webhookChanClosed, \* times close(m.webhookChan) ran
    dispatcher,   \* "none" or "running": the dispatchWebhooks goroutine
    client,       \* Client.client: "nil", "up", "down" (lost or never established), "closed"
    connected,    \* Client.connected
    cmu,          \* Client.mu: Free or the goroutine holding it
    cancelSet,    \* Client.cancelFunc != nil
    ctxDone,      \* the monitor's context is cancelled
    monitor,      \* [pc, attempt]: the handleReconnection goroutine
    messageChan,  \* buffered content of Client.messageChan
    messageChanClosed, \* times close(c.messageChan) ran
    call,         \* call[g]: where API call g is (Start, Stop, Disconnect)
    event,        \* the latest finished send, IsConnected or handler call (see Event)
    cycle,        \* [n, attempts, done]: reconnect() calls so far, Connect calls of the latest
    crashed       \* "none" or the runtime panic that ended the process

xvars == <<reconnection, clients, mmu, webhookChanClosed, dispatcher, client, connected,
           cmu, cancelSet, ctxDone, monitor, messageChan, messageChanClosed, call,
           event, cycle, crashed>>

\* The inbound pipeline from the client's handler to the Delivery Queue: a
\* message is SourceMsg(1, k), the k-th stanza the default client received.
VARIABLES
    arrived,      \* stanzas (with body and sender) the handler has received
    dispatch,     \* [pc, msg]: the dispatchWebhooks goroutine
    webhookChan,  \* buffered content of xmpp Manager.webhookChan
    loop,         \* [pc, msg]: the processXMPPMessages goroutine
    loopCtxDone,  \* the context given to webhook Manager.Start is cancelled
    taken,        \* the messages the loop has read from the webhook channel, in order
    handed,       \* the messages handed to Service.SendMessage, in order
    origin        \* origin[m]: the inbound message that SendMessage took as queue message m

pvars == <<arrived, dispatch, webhookChan, loop, loopCtxDone, taken, handed, origin>>

\* Test mode: TestModeUtils applied to a body and a URL, and one sendWebhook
\* call followed through its attempts with the body of its message.
VARIABLES
    probe,        \* [kind, body, parts, suffix]: the arguments of a TestModeUtils call
    answer,       \* [fn, body, url, isTestMode]: what the latest call returned
    dconfig,      \* [URL, RetryAttempts, Suffix]: the settings of the sendWebhook call
    msgBody,      \* Body of the message received from the queue
    send,         \* [pc, attempt, lastErr, payloadBody]: the frame of sendWebhook
    tries,        \* calls of sendWebhookAttempt so far
    lastTry,      \* the latest sendWebhookAttempt: what it examined, sent and returned
    issued,       \* HTTP requests issued so far
    apiStatus,    \* the latest response of GET /api/v1/webhook/status
    registry,     \* [start, conn, default, disp, stops]: Manager.Start calls one by one
    lk            \* the four mutexes with their holders, and where each goroutine is

tvars == <<probe, answer, dconfig, msgBody, send, tries, lastTry, issued, apiStatus,
          registry, lk>>

\* The Delivery Queue.
qvars == <<config, running, queue, closed, cancelFunc, cancelled, worker, started,
           sender, nextMsg, ret, stats, now, panicked, deq, reqs, sleeps, rejected,
           lastAttempt, lastOutcome, health>>

\* Everything outside the Delivery Queue, and everything outside mergeChannels.
outside == <<mvars, xvars, pvars, tvars>>
outsideMerge == <<qvars, xvars, pvars, tvars>>
outsideXmpp == <<qvars, mvars, pvars, tvars>>

vars == <<config, running, queue, closed, cancelFunc, cancelled, worker, started,
          sender, nextMsg, ret, stats, now, panicked, deq, reqs, sleeps, rejected,
          lastAttempt, lastOutcome, health, outside>>

\* ---------------------------------------------------------------- helpers
Range(s) == {s[i] : i \in 1..Len(s)}

NoURL == [kind |-> "nourl", status |-> 0]
TransportErr == [kind |-> "transport", status |-> 0]
Response(s) == [kind |-> "response", status |-> s]

\* What one sendWebhookAttempt can meet: without a URL it returns before any
\* request; otherwise the round trip fails or a response with a status arrives.
Outcomes(url) ==
    IF url = "" THEN {NoURL}
    ELSE {TransportErr} \cup {Response(s) : s \in Statuses}

\* A worker goroutine: where it is, the message sendWebhook holds, the loop
\* variable attempt, and lastErr while it is live (between a failed attempt and
\* the next attempt or the final updateStats).
IdleWorker == [pc |-> "select", msg |-> 0, attempt |-> 0, lastErr |-> ""]
UnbornWorker == [pc |-> "unborn", msg |-> 0, attempt |-> 0, lastErr |-> ""]
ExitedWorker == [pc |-> "exited", msg |-> 0, attempt |-> 0, lastErr |-> ""]
Attempting(m, a) == [pc |-> "attempt", msg |-> m, attempt |-> a, lastErr |-> ""]

Returned(op, err, early) ==
    [op |-> op, err |-> err, early |-> early, seq |-> 1 - ret.seq]


\* ---------------------------------------------------------------- pure parts
\* sendWebhookAttempt's verdict: nil exactly for a response whose status is not
\* outside [200,300).
IsSuccess_Through300(o) == o.kind = "response" /\ ~(o.status < 200 \/ o.status > 300)

IsSuccess(o) == o.kind = "response" /\ ~(o.status < 200 \/ o.status >= 300)

\* The error sendWebhookAttempt returns for a failed outcome.
ErrorMsg(o) ==
    CASE o.kind = "nourl" -> "webhook URL is not configured"
      [] o.kind = "transport" -> "failed to send HTTP request"
      [] o.kind = "response" /\ o.status = 199 -> "webhook returned status 199"
      [] o.kind = "response" /\ o.status = 300 -> "webhook returned status 300"
      [] OTHER -> "webhook returned status"

\* The backoff after failed attempt number `attempt`, in seconds.
Backoff_Linear(attempt) == attempt * 2

Backoff(attempt) == attempt * attempt

\* Whether sendWebhook sleeps after failed attempt number `attempt`.
SleepsAfter_Always(attempt) == attempt <= config.RetryAttempts

SleepsAfter(attempt) == attempt < config.RetryAttempts

\* updateStats at clock reading t.
UpdateStats_CountsBoth(st, success, errorMsg, t) ==
    IF success
    THEN [st EXCEPT !.TotalSent = @ + 1, !.TotalFailed = @ + 1, !.LastSent = t]
    ELSE [st EXCEPT !.TotalFailed = @ + 1, !.LastFailure = t, !.LastError = errorMsg]

UpdateStats(st, success, errorMsg, t) ==
    IF success
    THEN [st EXCEPT !.TotalSent = @ + 1, !.LastSent = t]
    ELSE [st EXCEPT !.TotalFailed = @ + 1, !.LastFailure = t, !.LastError = errorMsg]

\* Service.IsHealthy, read under the state it is called in.
IsHealthy_FromThreshold ==
    IF ~running THEN FALSE
    ELSE IF config.URL = "" THEN FALSE
    ELSE IF stats.TotalFailed >= FailureThreshold /\ stats.LastSent < stats.LastFailure
    THEN FALSE
    ELSE TRUE

IsHealthy ==
    IF ~running THEN FALSE
    ELSE IF config.URL = "" THEN FALSE
    ELSE IF stats.TotalFailed > FailureThreshold /\ stats.LastSent < stats.LastFailure
    THEN FALSE
    ELSE TRUE

\* No mergeChannels call has been made: no source, no goroutine, no output.
NoMerge ==
    /\ channels = [i \in Sources |-> [len |-> 0, sent |-> 0, buf |-> <<>>, closed |-> TRUE]]
    /\ forwarder = [i \in Sources |-> [pc |-> "none", msg |-> <<0, 0>>]]
    /\ wg = 0
    /\ closer = "none"
    /\ outputClosed = 0
    /\ reader = "none"
    /\ merged = <<>>

\* No pipeline goroutine runs and nothing has arrived.
NoPipeline ==
    /\ arrived = 0
    /\ dispatch = [pc |-> "none", msg |-> <<0, 0>>]
    /\ webhookChan = <<>>
    /\ loop = [pc |-> "none", msg |-> <<0, 0>>]
    /\ loopCtxDone = FALSE
    /\ taken = <<>>
    /\ handed = <<>>
    /\ origin = [m \in Msgs |-> <<0, 0>>]

\* No status request has been answered.
NoStatus ==
    [seq |-> 0, running |-> FALSE, healthy |-> FALSE, queue_length |-> 0, total_sent |-> 0,
     total_failed |-> 0]

\* Goroutines as lock holders.
Nobody == <<"none", 0>>
Api == <<"api", 0>>
Dispatcher == <<"dispatcher", 0>>

\* A sync.RWMutex: its writer (Nobody: unlocked) and its readers.
Unheld == [w |-> Nobody, r |-> {}]

\* NewService and NewManager, with the mutexes written out: nothing is locked,
\* no call is in progress, no goroutine has been spawned, both channels open.
NoLocks ==
    [mu |-> Unheld, statsMu |-> Unheld, managerMu |-> Unheld, clientMu |-> Unheld,
     api |-> [fn |-> "none", pc |-> "idle"],
     running |-> FALSE, closed |-> FALSE, queueLen |-> 0, spawned |-> 0,
     cancelled |-> [k \in 1..MaxStarts |-> FALSE],
     worker |-> [k \in 1..MaxStarts |-> [pc |-> "none", attempt |-> 0]],
     registered |-> FALSE, streamClosed |-> FALSE,
     disp |-> "none",
     panicked |-> FALSE]

\* Manager.Start has not been called: no client exists, m.clients is empty, no
\* dispatcher goroutine runs.
NoRegistry ==
    [start |-> [k \in 1..MaxStarts |-> "idle"],
     conn |-> [k \in 1..MaxStarts |-> "none"],
     default |-> 0,
     disp |-> [k \in 1..MaxStarts |-> [pc |-> "none", chans |-> {}]],
     stops |-> 0]

\* No TestModeUtils call and no sendWebhook call is followed, no status request
\* has been answered, Manager.Start calls are not followed one by one.
NoProbe ==
    /\ apiStatus = NoStatus
    /\ registry = NoRegistry
    /\ lk = NoLocks
    /\ probe = [kind |-> "none"]
    /\ answer = [fn |-> "none", body |-> <<>>, url |-> <<>>, isTestMode |-> FALSE]

NoTry == [attempt |-> 0, examined |-> <<>>, err |-> "nil", issued |-> FALSE, url |-> <<>>,
          testMode |-> FALSE, body |-> <<>>]

NoDelivery ==
    /\ dconfig = [URL |-> <<>>, RetryAttempts |-> 0, Suffix |-> <<>>]
    /\ msgBody = <<>>
    /\ send = [pc |-> "none", attempt |-> 0, lastErr |-> "", payloadBody |-> <<>>]
    /\ tries = 0
    /\ lastTry = NoTry
    /\ issued = 0

\* ---------------------------------------------------------------- goroutines of the xmpp side
Free == <<"free", 0>>
Starter == <<"Start", 1>>
Monitor == <<"Monitor", 1>>
Stoppers == {<<"Stop", s>> : s \in 1..MaxStops}
Disconnectors == {<<"Disconnect", d>> : d \in 1..MaxDisconnects}

\* The calls that run Client.Disconnect: every Manager.Stop and every direct call.
DisconnectCallers == Stoppers \cup Disconnectors

\* The API calls followed step by step.
Callers == {Starter} \cup Stoppers \cup Disconnectors

\* Stanzas the router hands to the message handler: body and sender, each empty
\* or not.
Stanzas == [body : {"", "hello"}, from : {"", "user@example.com"}]

NoEvent ==
    [kind |-> "none", op |-> "", arg |-> "", err |-> "nil", inner |-> "not called",
     val |-> FALSE, sent |-> "none", stanza |-> [body |-> "", from |-> ""], seq |-> 0]

\* NewManager and NewClient: no client registered, nothing connected, open empty
\* channels, no goroutine.
NoXmpp ==
    /\ clients = {}
    /\ mmu = Free
    /\ webhookChanClosed = 0
    /\ dispatcher = "none"
    /\ client = "nil"
    /\ connected = FALSE
    /\ cmu = Free
    /\ cancelSet = FALSE
    /\ ctxDone = FALSE
    /\ monitor = [pc |-> "none", attempt |-> 0]
    /\ messageChan = <<>>
    /\ messageChanClosed = 0
    /\ call = [g \in Callers |-> "idle"]
    /\ event = NoEvent
    /\ cycle = [n |-> 0, attempts |-> 0, done |-> TRUE]
    /\ crashed = "none"

\* ---------------------------------------------------------------- initial state
\* NewService: not running, an open empty channel, zero statistics.  The
\* configuration is any snapshot within the bounds.
QueueInit ==
    /\ config \in [URL : {"", "https://example.com/webhook"}, RetryAttempts : 0..MaxRetry]
    /\ running = FALSE
    /\ queue = <<>>
    /\ closed = FALSE
    /\ cancelFunc = 0
    /\ cancelled = [w \in Workers |-> FALSE]
    /\ worker = [w \in Workers |-> UnbornWorker]
    /\ started = 0
    /\ sender = [pc |-> "idle", msg |-> 0]
    /\ nextMsg = 1
    /\ ret = [op |-> "none", err |-> "nil", early |-> FALSE, seq |-> 0]
    /\ stats = [TotalSent |-> 0, TotalFailed |-> 0, LastSent |-> 0, LastFailure |-> 0,
                LastError |-> ""]
    /\ now = 0
    /\ panicked = "none"
    /\ deq = [m \in Msgs |-> 0]
    /\ reqs = [m \in Msgs |-> 0]
    /\ sleeps = [m \in Msgs |-> <<>>]
    /\ rejected = {}
    /\ lastAttempt = [msg |-> 0, attempt |-> 0, outcome |-> NoURL]
    /\ lastOutcome = "none"
    /\ health = [result |-> FALSE, seq |-> 0]

Init ==
    /\ QueueInit
    /\ NoMerge
    /\ NoXmpp
    /\ NoPipeline
    /\ NoDelivery
    /\ NoProbe
    /\ reconnection = [Enabled |-> FALSE, MaxAttempts |-> 0]

\* ---------------------------------------------------------------- Start / Stop
\* Start: the already-running guard, else a new context, a new worker goroutine
\* and running = true, all under s.mu.
Start_NoGuard ==
    /\ panicked = "none"
    /\ started < MaxStarts
    /\ started' = started + 1
    /\ cancelFunc' = started + 1
    /\ worker' = [worker EXCEPT ![started + 1] = IdleWorker]
    /\ running' = TRUE
    /\ ret' = Returned("Start", "nil", FALSE)
    /\ UNCHANGED <<config, queue, closed, cancelled, sender, nextMsg, stats, now,
                   panicked, deq, reqs, sleeps, rejected, lastAttempt>>
    /\ UNCHANGED <<lastOutcome, health, outside>>

Start ==
    /\ panicked = "none"
    /\ \/ /\ running
          /\ ret' = Returned("Start", "already running", TRUE)
          /\ UNCHANGED <<running, cancelFunc, worker, started>>
       \/ /\ ~running
          /\ started < MaxStarts
          /\ started' = started + 1
          /\ cancelFunc' = started + 1
          /\ worker' = [worker EXCEPT ![started + 1] = IdleWorker]
          /\ running' = TRUE
          /\ ret' = Returned("Start", "nil", FALSE)
    /\ UNCHANGED <<config, queue, closed, cancelled, sender, nextMsg, stats, now,
                   panicked, deq, reqs, sleeps, rejected, lastAttempt>>
    /\ UNCHANGED <<lastOutcome, health, outside>>

\* Stop: nil at once if not running; else cancel the worker context, close the
\* channel (a panic if it is closed already) and running = false.
Stop_NoGuard ==
    /\ panicked = "none"
    /\ cancelled' = IF cancelFunc # 0 THEN [cancelled EXCEPT ![cancelFunc] = TRUE]
                    ELSE cancelled
    /\ IF closed
       THEN /\ panicked' = "close of closed channel"
            /\ UNCHANGED <<closed, running, ret>>
       ELSE /\ closed' = TRUE
            /\ running' = FALSE
            /\ ret' = Returned("Stop", "nil", FALSE)
            /\ UNCHANGED panicked
    /\ UNCHANGED <<config, queue, cancelFunc, worker, started, sender, nextMsg, stats,
                   now, deq, reqs, sleeps, rejected, lastAttempt>>
    /\ UNCHANGED <<lastOutcome, health, outside>>

Stop ==
    /\ panicked = "none"
    /\ \/ /\ ~running
          /\ ret' = Returned("Stop", "nil", TRUE)
          /\ UNCHANGED <<cancelled, closed, running, panicked>>
       \/ /\ running
          /\ cancelled' = IF cancelFunc # 0 THEN [cancelled EXCEPT ![cancelFunc] = TRUE]
                          ELSE cancelled
          /\ \/ /\ closed
                /\ panicked' = "close of closed channel"
                /\ UNCHANGED <<closed, running, ret>>
             \/ /\ ~closed
                /\ closed' = TRUE
                /\ running' = FALSE
                /\ ret' = Returned("Stop", "nil", FALSE)
                /\ UNCHANGED panicked
    /\ UNCHANGED <<config, queue, cancelFunc, worker, started, sender, nextMsg, stats,
                   now, deq, reqs, sleeps, rejected, lastAttempt>>
    /\ UNCHANGED <<lastOutcome, health, outside>>

\* ---------------------------------------------------------------- SendMessage
\* First half: isRunning() under the read lock, released before the select.
SendCheck_NoGuard ==
    /\ panicked = "none"
    /\ sender.pc = "idle"
    /\ nextMsg <= MaxMsgs
    /\ sender' = [pc |-> "checked", msg |-> nextMsg]
    /\ nextMsg' = nextMsg + 1
    /\ UNCHANGED <<config, running, queue, closed, cancelFunc, cancelled, worker, started,
                   ret, stats, now, panicked, deq, reqs, sleeps, rejected, lastAttempt>>
    /\ UNCHANGED <<lastOutcome, health, outside>>

SendCheck ==
    /\ panicked = "none"
    /\ sender.pc = "idle"
    /\ \/ /\ ~running
          /\ ret' = Returned("SendMessage", "not running", TRUE)
          /\ UNCHANGED <<sender, nextMsg>>
       \/ /\ running
          /\ nextMsg <= MaxMsgs
          /\ sender' = [pc |-> "checked", msg |-> nextMsg]
          /\ nextMsg' = nextMsg + 1
          /\ UNCHANGED ret
    /\ UNCHANGED <<config, running, queue, closed, cancelFunc, cancelled, worker, started,
                   stats, now, panicked, deq, reqs, sleeps, rejected, lastAttempt>>
    /\ UNCHANGED <<lastOutcome, health, outside>>

\* Second half: select { case s.messageQueue <- msg: ... default: ... }.  A send
\* on a closed channel panics, also inside a select with a default case.
SendEnqueue ==
    /\ panicked = "none"
    /\ sender.pc = "checked"
    /\ \/ /\ closed
          /\ panicked' = "send on closed channel"
          /\ UNCHANGED <<queue, rejected, ret, sender>>
       \/ /\ ~closed
          /\ Len(queue) < QueueCap
          /\ queue' = Append(queue, sender.msg)
          /\ ret' = Returned("SendMessage", "nil", FALSE)
          /\ sender' = [pc |-> "idle", msg |-> 0]
          /\ UNCHANGED <<rejected, panicked>>
       \/ /\ ~closed
          /\ Len(queue) >= QueueCap
          /\ rejected' = rejected \cup {sender.msg}
          /\ ret' = Returned("SendMessage", "queue full", FALSE)
          /\ sender' = [pc |-> "idle", msg |-> 0]
          /\ UNCHANGED <<queue, panicked>>
    /\ UNCHANGED <<config, running, closed, cancelFunc, cancelled, worker, started,
                   nextMsg, stats, now, deq, reqs, sleeps, lastAttempt>>
    /\ UNCHANGED <<lastOutcome, health, outside>>


\* ---------------------------------------------------------------- the worker
\* processWebhooks, case <-ctx.Done(): return.  Go chooses among the ready cases
\* of a select at random, so this branch competes with a ready receive.
WorkerCtxDone(w) ==
    /\ panicked = "none"
    /\ worker[w].pc = "select"
    /\ cancelled[w]
    /\ worker' = [worker EXCEPT ![w] = ExitedWorker]
    /\ UNCHANGED <<config, running, queue, closed, cancelFunc, cancelled, started, sender,
                   nextMsg, ret, stats, now, panicked, deq, reqs, sleeps, rejected,
                   lastAttempt>>
    /\ UNCHANGED <<lastOutcome, health, outside>>

\* processWebhooks, case msg, ok := <-s.messageQueue with ok = false: the channel
\* is closed and holds nothing.
WorkerClosed(w) ==
    /\ panicked = "none"
    /\ worker[w].pc = "select"
    /\ closed
    /\ queue = <<>>
    /\ worker' = [worker EXCEPT ![w] = ExitedWorker]
    /\ UNCHANGED <<config, running, queue, closed, cancelFunc, cancelled, started, sender,
                   nextMsg, ret, stats, now, panicked, deq, reqs, sleeps, rejected,
                   lastAttempt>>
    /\ UNCHANGED <<lastOutcome, health, outside>>

\* processWebhooks, a message received: sendWebhook(msg) starts its retry loop at
\* attempt 1.  With retry_attempts < 1 the loop body never runs and the failure
\* "unknown error" is recorded at once.
WorkerRecv_DuringBackoff(w) ==
    /\ panicked = "none"
    /\ worker[w].pc \in {"select", "sleep"}
    /\ queue # <<>>
    /\ LET m == Head(queue) IN
       /\ queue' = Tail(queue)
       /\ deq' = [deq EXCEPT ![m] = @ + 1]
       /\ IF 1 <= config.RetryAttempts
          THEN /\ worker' = [worker EXCEPT ![w] = Attempting(m, 1)]
               /\ UNCHANGED <<stats, now, lastOutcome>>
          ELSE /\ now' = now + 1
               /\ stats' = UpdateStats(stats, FALSE, "unknown error", now + 1)
               /\ lastOutcome' = "failure"
               /\ UNCHANGED worker
    /\ UNCHANGED <<config, running, closed, cancelFunc, cancelled, started, sender,
                   nextMsg, ret, panicked, reqs, sleeps, rejected, lastAttempt>>
    /\ UNCHANGED <<health, outside>>

WorkerRecv(w) ==
    /\ panicked = "none"
    /\ worker[w].pc = "select"
    /\ queue # <<>>
    /\ LET m == Head(queue) IN
       /\ queue' = Tail(queue)
       /\ deq' = [deq EXCEPT ![m] = @ + 1]
       /\ IF 1 <= config.RetryAttempts
          THEN /\ worker' = [worker EXCEPT ![w] = Attempting(m, 1)]
               /\ UNCHANGED <<stats, now, lastOutcome>>
          ELSE /\ now' = now + 1
               /\ stats' = UpdateStats(stats, FALSE, "unknown error", now + 1)
               /\ lastOutcome' = "failure"
               /\ UNCHANGED worker
    /\ UNCHANGED <<config, running, closed, cancelFunc, cancelled, started, sender,
                   nextMsg, ret, panicked, reqs, sleeps, rejected, lastAttempt>>
    /\ UNCHANGED <<health, outside>>

\* One sendWebhookAttempt and what sendWebhook does with its result: on nil
\* updateStats(true) and return; on an error either the backoff sleep or, after
\* the last attempt, updateStats(false, lastErr) and return.
WorkerAttempt(w) ==
    /\ panicked = "none"
    /\ worker[w].pc = "attempt"
    /\ \E o \in Outcomes(config.URL) :
         LET m == worker[w].msg
             a == worker[w].attempt
         IN
         /\ reqs' = [reqs EXCEPT ![m] = IF o.kind = "nourl" THEN @ ELSE @ + 1]
         /\ lastAttempt' = [msg |-> m, attempt |-> a, outcome |-> o]
         /\ IF IsSuccess(o)
            THEN /\ now' = now + 1
                 /\ stats' = UpdateStats(stats, TRUE, "", now + 1)
                 /\ lastOutcome' = "success"
                 /\ worker' = [worker EXCEPT ![w] = IdleWorker]
            ELSE IF SleepsAfter(a)
            THEN /\ worker' = [worker EXCEPT ![w].pc = "sleep", ![w].lastErr = ErrorMsg(o)]
                 /\ UNCHANGED <<stats, now, lastOutcome>>
            ELSE IF a + 1 <= config.RetryAttempts
            THEN /\ worker' = [worker EXCEPT ![w] = Attempting(m, a + 1)]
                 /\ UNCHANGED <<stats, now, lastOutcome>>
            ELSE /\ now' = now + 1
                 /\ stats' = UpdateStats(stats, FALSE, ErrorMsg(o), now + 1)
                 /\ lastOutcome' = "failure"
                 /\ worker' = [worker EXCEPT ![w] = IdleWorker]
    /\ UNCHANGED <<config, running, queue, closed, cancelFunc, cancelled, started, sender,
                   nextMsg, ret, panicked, deq, sleeps, rejected>>
    /\ UNCHANGED <<health, outside>>

\* time.Sleep(attempt*attempt seconds) returns, and the loop goes to the next
\* attempt if the loop condition still holds.
WorkerSleep(w) ==
    /\ panicked = "none"
    /\ worker[w].pc = "sleep"
    /\ LET m == worker[w].msg
           a == worker[w].attempt
       IN
       /\ sleeps' = [sleeps EXCEPT ![m] = Append(@, Backoff(a))]
       /\ IF a + 1 <= config.RetryAttempts
          THEN /\ worker' = [worker EXCEPT ![w] = Attempting(m, a + 1)]
               /\ UNCHANGED <<stats, now, lastOutcome>>
          ELSE /\ now' = now + 1
               /\ stats' = UpdateStats(stats, FALSE, worker[w].lastErr, now + 1)
               /\ lastOutcome' = "failure"
               /\ worker' = [worker EXCEPT ![w] = IdleWorker]
    /\ UNCHANGED <<config, running, queue, closed, cancelFunc, cancelled, started, sender,
                   nextMsg, ret, panicked, deq, reqs, rejected, lastAttempt>>
    /\ UNCHANGED <<health, outside>>

\* ---------------------------------------------------------------- specification
Next ==
    \/ Start
    \/ Stop
    \/ SendCheck
    \/ SendEnqueue
    \/ \E w \in Workers : WorkerCtxDone(w)
    \/ \E w \in Workers : WorkerClosed(w)
    \/ \E w \in Workers : WorkerRecv(w)
    \/ \E w \in Workers : WorkerAttempt(w)
    \/ \E w \in Workers : WorkerSleep(w)

Spec == Init /\ [][Next]_vars

\* ---------------------------------------------------------------- health
\* The worker finishes a sendWebhook call and records its outcome, as the retry
\* loop above does; a success needs a URL to post to.
RecordOutcome ==
    /\ panicked = "none"
    /\ \E w \in Workers : worker[w].pc \notin {"unborn", "exited"}
    /\ stats.TotalSent + stats.TotalFailed < MaxOutcomes
    /\ \E success \in BOOLEAN :
         /\ success => config.URL # ""
         /\ now' = now + 1
         /\ stats' = UpdateStats(stats, success,
                                 IF success THEN "" ELSE "failed to send HTTP request",
                                 now + 1)
         /\ lastOutcome' = IF success THEN "success" ELSE "failure"
    /\ UNCHANGED <<config, running, queue, closed, cancelFunc, cancelled, worker, started,
                   sender, nextMsg, ret, panicked, deq, reqs, sleeps, rejected,
                   lastAttempt, health, outside>>

\* A caller reads IsHealthy().
IsHealthyCall ==
    /\ panicked = "none"
    /\ health' = [result |-> IsHealthy, seq |-> 1 - health.seq]
    /\ UNCHANGED <<config, running, queue, closed, cancelFunc, cancelled, worker, started,
                   sender, nextMsg, ret, stats, now, panicked, deq, reqs, sleeps, rejected,
                   lastAttempt, lastOutcome, outside>>

\* The service seen through its statistics: Start, Stop, recorded outcomes and
\* health reads, with retry_attempts = 1 as in the health test.
HealthInit == Init /\ config.RetryAttempts = 1

HealthNext ==
    \/ Start
    \/ Stop
    \/ RecordOutcome
    \/ IsHealthyCall

HealthSpec == HealthInit /\ [][HealthNext]_vars

\* ---------------------------------------------------------------- mergeChannels
\* The Delivery Queue as constructed from an empty configuration and never used.
QueueUnused == QueueInit /\ config = [URL |-> "", RetryAttempts |-> 0]

\* The k-th message of source i.
SourceMsg(i, k) == <<i, k>>

\* mergeChannels has returned: wg.Add(len(channels)) ran, one forwarder per
\* source and the closer goroutine exist, output is open and nobody has written
\* to a source yet.  Each source is to emit some number of messages.
MergeInit ==
    /\ QueueUnused
    /\ \E lens \in [Sources -> 0..MaxPerSource] :
         channels = [i \in Sources |->
                       [len |-> lens[i], sent |-> 0, buf |-> <<>>, closed |-> FALSE]]
    /\ forwarder = [i \in Sources |-> [pc |-> "range", msg |-> <<0, 0>>]]
    /\ wg = NumSources
    /\ closer = "wait"
    /\ outputClosed = 0
    /\ reader = "reading"
    /\ merged = <<>>
    /\ NoXmpp
    /\ NoPipeline
    /\ NoDelivery
    /\ NoProbe
    /\ reconnection = [Enabled |-> FALSE, MaxAttempts |-> 0]

\* The producer of source i sends its next message (it blocks while the buffer
\* is full).
Produce(i) ==
    /\ ~channels[i].closed
    /\ channels[i].sent < channels[i].len
    /\ Len(channels[i].buf) < SourceCap
    /\ channels' = [channels EXCEPT ![i].buf = Append(@, SourceMsg(i, channels[i].sent + 1)),
                                    ![i].sent = @ + 1]
    /\ UNCHANGED <<forwarder, wg, closer, outputClosed, reader, merged>>
    /\ UNCHANGED outsideMerge

\* The producer of source i has sent everything and closes the source.
CloseSource(i) ==
    /\ ~channels[i].closed
    /\ channels[i].sent = channels[i].len
    /\ channels' = [channels EXCEPT ![i].closed = TRUE]
    /\ UNCHANGED <<forwarder, wg, closer, outputClosed, reader, merged>>
    /\ UNCHANGED outsideMerge

\* for msg := range c: the forwarder receives the next message of its source.
ForwarderRecv(i) ==
    /\ forwarder[i].pc = "range"
    /\ channels[i].buf # <<>>
    /\ forwarder' = [forwarder EXCEPT ![i] = [pc |-> "send", msg |-> Head(channels[i].buf)]]
    /\ channels' = [channels EXCEPT ![i].buf = Tail(@)]
    /\ UNCHANGED <<wg, closer, outputClosed, reader, merged>>
    /\ UNCHANGED outsideMerge

\* output <- msg on the unbuffered output: the send completes together with a
\* receive of the consumer.
ForwarderSend(i) ==
    /\ forwarder[i].pc = "send"
    /\ reader = "reading"
    /\ outputClosed = 0
    /\ merged' = Append(merged, forwarder[i].msg)
    /\ forwarder' = [forwarder EXCEPT ![i] = [pc |-> "range", msg |-> <<0, 0>>]]
    /\ UNCHANGED <<channels, wg, closer, outputClosed, reader>>
    /\ UNCHANGED outsideMerge

\* The range loop ends on a closed, drained source; the deferred wg.Done() runs.
ForwarderExit(i) ==
    /\ forwarder[i].pc = "range"
    /\ channels[i].buf = <<>>
    /\ channels[i].closed
    /\ forwarder' = [forwarder EXCEPT ![i].pc = "done"]
    /\ wg' = wg - 1
    /\ UNCHANGED <<channels, closer, outputClosed, reader, merged>>
    /\ UNCHANGED outsideMerge

\* wg.Wait() returns once the counter is zero; close(output).
CloseOutput_NoWait ==
    /\ closer = "wait"
    /\ closer' = "done"
    /\ outputClosed' = outputClosed + 1
    /\ UNCHANGED <<channels, forwarder, wg, reader, merged>>
    /\ UNCHANGED outsideMerge

CloseOutput ==
    /\ closer = "wait"
    /\ wg = 0
    /\ closer' = "done"
    /\ outputClosed' = outputClosed + 1
    /\ UNCHANGED <<channels, forwarder, wg, reader, merged>>
    /\ UNCHANGED outsideMerge

\* The consumer's receive reports the closed output.
ReaderSeesClose ==
    /\ reader = "reading"
    /\ outputClosed >= 1
    /\ reader' = "done"
    /\ UNCHANGED <<channels, forwarder, wg, closer, outputClosed, merged>>
    /\ UNCHANGED outsideMerge

MergeNext ==
    \/ \E i \in Sources : Produce(i)
    \/ \E i \in Sources : CloseSource(i)
    \/ \E i \in Sources : ForwarderRecv(i)
    \/ \E i \in Sources : ForwarderSend(i)
    \/ \E i \in Sources : ForwarderExit(i)
    \/ CloseOutput
    \/ ReaderSeesClose

MergeSpec == MergeInit /\ [][MergeNext]_vars

\* ---------------------------------------------------------------- Connection Registry and Client
\* Where goroutine g is.
PcOf(g) == IF g = Monitor THEN monitor.pc ELSE call[g]

\* The stanza type a Client send puts on the wire.
StanzaType(op, arg) ==
    IF op = "SendMUCMessage" THEN "groupchat"
    ELSE IF arg = "" THEN "chat"
    ELSE arg

\* What a Client send returns: the not-connected error, else what c.client.Send
\* returns on the session as it is.
SendResult_Swallowed ==
    IF ~connected THEN "nil"
    ELSE IF client = "up" THEN "nil"
    ELSE "send failed"

SendResult ==
    IF ~connected THEN "not connected"
    ELSE IF client = "up" THEN "nil"
    ELSE "send failed"

\* The stanza type c.client.Send is called with, "none" if it is not called.
SentStanza(op, arg) == IF connected THEN StanzaType(op, arg) ELSE "none"

NoStanza == [body |-> "", from |-> ""]

\* The record of a finished call: what was called with what, the error it
\* returned, the error the client's own operation returned to a Manager
\* ("not called" if the Manager did not call it), a returned boolean, the type
\* of the stanza handed to the protocol layer, and the stanza a handler got.
Event(kind, op, arg, err, inner, val, sent, st) ==
    [kind |-> kind, op |-> op, arg |-> arg, err |-> err, inner |-> inner, val |-> val,
     sent |-> sent, stanza |-> st, seq |-> 1 - event.seq]

SendOps == {"SendMessage", "SendMUCMessage"}

\* The third argument of a send: the message type, or the MUC subject.
SendArgs == {"", "chat", "headline"}

\* The send case of the handler's select is ready: messageChan has a free slot.
ChanHasRoom_OneMore == Len(messageChan) <= MessageChanCap

ChanHasRoom == Len(messageChan) < MessageChanCap

\* reconnect's loop goes on after failed attempt number `attempt`.
MoreAttempts_Inclusive(attempt) == attempt <= reconnection.MaxAttempts

MoreAttempts(attempt) == attempt + 1 <= reconnection.MaxAttempts

\* Manager.Start up to the protocol connect: NewClient, then Client.Connect
\* stores the cancel function, creates the session (xmpp.NewClient may fail)
\* and connects (c.client.Connect may fail).  On either error Start returns it;
\* otherwise Connect goes on to setConnected(true).
ManagerStart ==
    /\ crashed = "none"
    /\ call[Starter] = "idle"
    /\ cancelSet' = TRUE
    /\ \E o \in {"no session", "refused", "established"} :
         /\ client' = CASE o = "no session" -> "nil"
                         [] o = "refused" -> "down"
                         [] OTHER -> "up"
         /\ call' = [call EXCEPT ![Starter] =
                       IF o = "established" THEN "setConnected" ELSE "failed"]
    /\ UNCHANGED <<reconnection, clients, mmu, webhookChanClosed, dispatcher, connected,
                   cmu, ctxDone, monitor, messageChan, messageChanClosed, event, cycle,
                   crashed>>
    /\ UNCHANGED outsideXmpp

\* go c.handleReconnection(ctx) at the end of Connect: the goroutine returns at
\* once unless reconnection is enabled, else it waits in the monitor's select.
MonitorAfterConnect_Always == [pc |-> "timer", attempt |-> 0]

MonitorAfterConnect ==
    [pc |-> IF reconnection.Enabled THEN "timer" ELSE "exited", attempt |-> 0]

\* What follows c.mu.Lock() in setConnected, up to the return of the API call (or
\* of reconnect) that made it.  From Connect: the flag, the monitor goroutine,
\* then Start registers the client under m.mu and spawns the dispatcher.  From
\* reconnect: the flag, and reconnect returns nil.  From Disconnect: the flag,
\* c.client.Disconnect() (an error returns at once), close(c.messageChan), the
\* deferred unlock; in Manager.Stop then close(m.webhookChan), the empty client
\* map and the deferred unlock of m.mu.
AfterSetConnected(g) ==
    IF g = Starter
    THEN /\ mmu = Free
         /\ connected' = TRUE
         /\ monitor' = MonitorAfterConnect
         /\ clients' = clients \cup {"default"}
         /\ dispatcher' = "running"
         /\ call' = [call EXCEPT ![g] = "returned"]
         /\ UNCHANGED <<mmu, webhookChanClosed, client, cmu, messageChanClosed, cycle,
                        crashed>>
    ELSE IF g = Monitor
    THEN /\ connected' = TRUE
         /\ monitor' = [pc |-> "timer", attempt |-> 0]
         /\ cycle' = [cycle EXCEPT !.done = TRUE]
         /\ UNCHANGED <<clients, mmu, webhookChanClosed, dispatcher, client, cmu,
                        messageChanClosed, call, crashed>>
    ELSE \E sessionErr \in (IF client = "nil" THEN {FALSE} ELSE BOOLEAN) :
           LET chanPanic == ~sessionErr /\ messageChanClosed >= 1
               stopRuns == g \in Stoppers /\ ~chanPanic
               hookPanic == stopRuns /\ webhookChanClosed >= 1
               stopDone == stopRuns /\ ~hookPanic
           IN
           /\ connected' = FALSE
           /\ client' = IF ~sessionErr /\ client # "nil" THEN "closed" ELSE client
           /\ messageChanClosed' = IF ~sessionErr /\ ~chanPanic
                                   THEN messageChanClosed + 1
                                   ELSE messageChanClosed
           /\ cmu' = IF chanPanic THEN cmu ELSE Free
           /\ webhookChanClosed' = IF stopDone THEN webhookChanClosed + 1
                                   ELSE webhookChanClosed
           /\ clients' = IF stopDone THEN {} ELSE clients
           /\ mmu' = IF stopDone THEN Free ELSE mmu
           /\ crashed' = IF chanPanic THEN "close of closed channel: messageChan"
                         ELSE IF hookPanic THEN "close of closed channel: webhookChan"
                         ELSE crashed
           /\ call' = [call EXCEPT ![g] =
                         IF chanPanic \/ hookPanic THEN "panicked"
                         ELSE IF g \in Stoppers THEN "returned"
                         ELSE IF sessionErr THEN "failed"
                         ELSE "returned"]
           /\ UNCHANGED <<monitor, dispatcher, cycle>>

\* setConnected: c.mu.Lock(), the write, and what its caller does next.  c.mu is
\* not reentrant: the step waits until no goroutine holds it.
SetConnected_NoLock(g) ==
    /\ crashed = "none"
    /\ PcOf(g) = "setConnected"
    /\ AfterSetConnected(g)
    /\ UNCHANGED <<reconnection, cancelSet, ctxDone, messageChan, event>>
    /\ UNCHANGED outsideXmpp

SetConnected(g) ==
    /\ crashed = "none"
    /\ PcOf(g) = "setConnected"
    /\ cmu = Free
    /\ AfterSetConnected(g)
    /\ UNCHANGED <<reconnection, cancelSet, ctxDone, messageChan, event>>
    /\ UNCHANGED outsideXmpp

\* Manager.Stop takes m.mu.  With no client registered the loop body never
\* runs: close(m.webhookChan) (a panic if it is closed already), the empty map,
\* return.  Otherwise it calls Disconnect on the client, holding m.mu.
ManagerStop(g) ==
    /\ crashed = "none"
    /\ call[g] = "idle"
    /\ mmu = Free
    /\ IF clients = {}
       THEN IF webhookChanClosed >= 1
            THEN /\ crashed' = "close of closed channel: webhookChan"
                 /\ call' = [call EXCEPT ![g] = "panicked"]
                 /\ UNCHANGED <<webhookChanClosed, mmu>>
            ELSE /\ webhookChanClosed' = webhookChanClosed + 1
                 /\ call' = [call EXCEPT ![g] = "returned"]
                 /\ UNCHANGED <<crashed, mmu>>
       ELSE /\ mmu' = g
            /\ call' = [call EXCEPT ![g] = "lock"]
            /\ UNCHANGED <<webhookChanClosed, crashed>>
    /\ UNCHANGED <<reconnection, clients, dispatcher, client, connected, cmu, cancelSet,
                   ctxDone, monitor, messageChan, messageChanClosed, event, cycle>>
    /\ UNCHANGED outsideXmpp

\* A direct call of Client.Disconnect is made; it waits for c.mu.
DisconnectCall(g) ==
    /\ crashed = "none"
    /\ call[g] = "idle"
    /\ call' = [call EXCEPT ![g] = "lock"]
    /\ UNCHANGED <<reconnection, clients, mmu, webhookChanClosed, dispatcher, client,
                   connected, cmu, cancelSet, ctxDone, monitor, messageChan,
                   messageChanClosed, event, cycle, crashed>>
    /\ UNCHANGED outsideXmpp

\* Disconnect: c.mu.Lock() (held until the deferred unlock), then cancelFunc()
\* if it is set; next is setConnected(false).
DisconnectLock(g) ==
    /\ crashed = "none"
    /\ call[g] = "lock"
    /\ cmu = Free
    /\ cmu' = g
    /\ ctxDone' = (ctxDone \/ cancelSet)
    /\ call' = [call EXCEPT ![g] = "setConnected"]
    /\ UNCHANGED <<reconnection, clients, mmu, webhookChanClosed, dispatcher, client,
                   connected, cancelSet, monitor, messageChan, messageChanClosed, event,
                   cycle, crashed>>
    /\ UNCHANGED outsideXmpp

\* A direct call of Client.SendMessage or Client.SendMUCMessage.
ClientSend(op, arg) ==
    /\ crashed = "none"
    /\ cmu = Free
    /\ event' = Event("ClientSend", op, arg, SendResult, SendResult, FALSE,
                      SentStanza(op, arg), NoStanza)
    /\ UNCHANGED <<reconnection, clients, mmu, webhookChanClosed, dispatcher, client,
                   connected, cmu, cancelSet, ctxDone, monitor, messageChan,
                   messageChanClosed, call, cycle, crashed>>
    /\ UNCHANGED outsideXmpp

\* Manager.SendMessage / Manager.SendMUCMessage: GetDefaultClient under m.mu's
\* read lock, ErrNoDefaultClient if there is none, else the client's send and
\* its result.
ManagerSend_NoCheck(op, arg) ==
    /\ crashed = "none"
    /\ mmu = Free
    /\ cmu = Free
    /\ event' = Event("ManagerSend", op, arg, SendResult, SendResult, FALSE,
                      SentStanza(op, arg), NoStanza)
    /\ UNCHANGED <<reconnection, clients, mmu, webhookChanClosed, dispatcher, client,
                   connected, cmu, cancelSet, ctxDone, monitor, messageChan,
                   messageChanClosed, call, cycle, crashed>>
    /\ UNCHANGED outsideXmpp

ManagerSend(op, arg) ==
    /\ crashed = "none"
    /\ mmu = Free
    /\ IF "default" \notin clients
       THEN event' = Event("ManagerSend", op, arg, "no default client", "not called", FALSE,
                           "none", NoStanza)
       ELSE /\ cmu = Free
            /\ event' = Event("ManagerSend", op, arg, SendResult, SendResult, FALSE,
                              SentStanza(op, arg), NoStanza)
    /\ UNCHANGED <<reconnection, clients, mmu, webhookChanClosed, dispatcher, client,
                   connected, cmu, cancelSet, ctxDone, monitor, messageChan,
                   messageChanClosed, call, cycle, crashed>>
    /\ UNCHANGED outsideXmpp

\* Manager.IsConnected: false without a default client, else the client's flag
\* read under c.mu's read lock.
ManagerIsConnected ==
    /\ crashed = "none"
    /\ mmu = Free
    /\ "default" \in clients => cmu = Free
    /\ event' = Event("ManagerIsConnected", "IsConnected", "", "nil",
                      IF "default" \in clients THEN "nil" ELSE "not called",
                      "default" \in clients /\ connected, "none", NoStanza)
    /\ UNCHANGED <<reconnection, clients, mmu, webhookChanClosed, dispatcher, client,
                   connected, cmu, cancelSet, ctxDone, monitor, messageChan,
                   messageChanClosed, call, cycle, crashed>>
    /\ UNCHANGED outsideXmpp

\* The message handler installed by setupHandlers, called by the router for a
\* stanza of the established session: a stanza without body or sender is
\* skipped; otherwise a non-blocking send to messageChan, which drops the
\* message if the buffer is full (and panics on a closed channel).
HandleStanza(st) ==
    /\ crashed = "none"
    /\ client = "up"
    /\ event' = Event("Stanza", "", "", "nil", "not called", FALSE, "none", st)
    /\ IF st.body = "" \/ st.from = ""
       THEN UNCHANGED <<messageChan, crashed>>
       ELSE IF messageChanClosed >= 1
       THEN /\ crashed' = "send on closed channel"
            /\ UNCHANGED messageChan
       ELSE IF ChanHasRoom
       THEN /\ messageChan' = Append(messageChan, st)
            /\ UNCHANGED crashed
       ELSE UNCHANGED <<messageChan, crashed>>
    /\ UNCHANGED <<reconnection, clients, mmu, webhookChanClosed, dispatcher, client,
                   connected, cmu, cancelSet, ctxDone, monitor, messageChanClosed, call,
                   cycle>>
    /\ UNCHANGED outsideXmpp

\* The dispatcher's forwarder receives the next buffered inbound message.
TakeInbound ==
    /\ crashed = "none"
    /\ dispatcher = "running"
    /\ messageChan # <<>>
    /\ messageChan' = Tail(messageChan)
    /\ UNCHANGED <<reconnection, clients, mmu, webhookChanClosed, dispatcher, client,
                   connected, cmu, cancelSet, ctxDone, monitor, messageChanClosed, call,
                   event, cycle, crashed>>
    /\ UNCHANGED outsideXmpp

\* The established session is lost (the network, the server); nothing in the
\* client is told.
SessionLost ==
    /\ crashed = "none"
    /\ client = "up"
    /\ client' = "down"
    /\ UNCHANGED <<reconnection, clients, mmu, webhookChanClosed, dispatcher, connected,
                   cmu, cancelSet, ctxDone, monitor, messageChan, messageChanClosed,
                   call, event, cycle, crashed>>
    /\ UNCHANGED outsideXmpp

\* handleReconnection, case <-ctx.Done(): return.
MonitorCtxDone ==
    /\ crashed = "none"
    /\ monitor.pc = "timer"
    /\ ctxDone
    /\ monitor' = [pc |-> "exited", attempt |-> 0]
    /\ UNCHANGED <<reconnection, clients, mmu, webhookChanClosed, dispatcher, client,
                   connected, cmu, cancelSet, ctxDone, messageChan, messageChanClosed,
                   call, event, cycle, crashed>>
    /\ UNCHANGED outsideXmpp

\* handleReconnection, case <-time.After(10s): the timer fires while the loop
\* waits in its select.  A context that is already done wins the select, since
\* the timer is created anew on every pass.  The reconnection cycles followed
\* are capped.
MonitorTick ==
    /\ crashed = "none"
    /\ monitor.pc = "timer"
    /\ ~ctxDone
    /\ connected \/ client = "nil" \/ cycle.n < MaxCycles
    /\ monitor' = [monitor EXCEPT !.pc = "isConnected"]
    /\ UNCHANGED <<reconnection, clients, mmu, webhookChanClosed, dispatcher, client,
                   connected, cmu, cancelSet, ctxDone, messageChan, messageChanClosed,
                   call, event, cycle, crashed>>
    /\ UNCHANGED outsideXmpp

\* handleReconnection after the tick: isConnected() under the read lock; if the
\* flag is false and a session object exists, reconnect() starts its loop at
\* attempt 1 (with max_attempts < 1 it returns its error at once); otherwise
\* the loop waits again.
MonitorIsConnected ==
    /\ crashed = "none"
    /\ monitor.pc = "isConnected"
    /\ cmu = Free
    /\ IF ~connected /\ client # "nil"
       THEN IF 1 <= reconnection.MaxAttempts
            THEN /\ monitor' = [pc |-> "sleep", attempt |-> 1]
                 /\ cycle' = [n |-> cycle.n + 1, attempts |-> 0, done |-> FALSE]
            ELSE /\ monitor' = [pc |-> "timer", attempt |-> 0]
                 /\ cycle' = [n |-> cycle.n + 1, attempts |-> 0, done |-> TRUE]
       ELSE /\ monitor' = [pc |-> "timer", attempt |-> 0]
            /\ UNCHANGED cycle
    /\ UNCHANGED <<reconnection, clients, mmu, webhookChanClosed, dispatcher, client,
                   connected, cmu, cancelSet, ctxDone, messageChan, messageChanClosed,
                   call, event, crashed>>
    /\ UNCHANGED outsideXmpp

\* reconnect: time.Sleep(backoff) returns.
ReconnectSleep ==
    /\ crashed = "none"
    /\ monitor.pc = "sleep"
    /\ monitor' = [monitor EXCEPT !.pc = "connect"]
    /\ UNCHANGED <<reconnection, clients, mmu, webhookChanClosed, dispatcher, client,
                   connected, cmu, cancelSet, ctxDone, messageChan, messageChanClosed,
                   call, event, cycle, crashed>>
    /\ UNCHANGED outsideXmpp

\* reconnect: c.client.Connect().  On an error the loop continues with the next
\* attempt, or ends with the error after max_attempts; on success
\* setConnected(true) is next.
ReconnectConnect ==
    /\ crashed = "none"
    /\ monitor.pc = "connect"
    /\ \E ok \in BOOLEAN :
         IF ok
         THEN /\ client' = "up"
              /\ monitor' = [monitor EXCEPT !.pc = "setConnected"]
              /\ cycle' = [cycle EXCEPT !.attempts = @ + 1]
         ELSE /\ client' = "down"
              /\ monitor' = IF MoreAttempts(monitor.attempt)
                            THEN [pc |-> "sleep", attempt |-> monitor.attempt + 1]
                            ELSE [pc |-> "timer", attempt |-> 0]
              /\ cycle' = [cycle EXCEPT !.attempts = @ + 1,
                                        !.done = ~MoreAttempts(monitor.attempt)]
    /\ UNCHANGED <<reconnection, clients, mmu, webhookChanClosed, dispatcher, connected,
                   cmu, cancelSet, ctxDone, messageChan, messageChanClosed, call, event,
                   crashed>>
    /\ UNCHANGED outsideXmpp

\* ---------------------------------------------------------------- xmpp specifications
\* The registry from NewManager on: Start, Stop, direct Disconnect calls, sends,
\* inbound stanzas, the loss of the session and the monitor's ticks.
XmppInit ==
    /\ QueueUnused
    /\ NoMerge
    /\ NoPipeline
    /\ NoDelivery
    /\ NoProbe
    /\ NoXmpp
    /\ reconnection \in [Enabled : BOOLEAN, MaxAttempts : {MaxReconnect}]

XmppNext ==
    \/ ManagerStart
    \/ \E g \in Callers \cup {Monitor} : SetConnected(g)
    \/ \E g \in Stoppers : ManagerStop(g)
    \/ \E g \in Disconnectors : DisconnectCall(g)
    \/ \E g \in DisconnectCallers : DisconnectLock(g)
    \/ \E op \in SendOps, arg \in SendArgs : ClientSend(op, arg)
    \/ \E op \in SendOps, arg \in SendArgs : ManagerSend(op, arg)
    \/ ManagerIsConnected
    \/ \E st \in Stanzas : HandleStanza(st)
    \/ TakeInbound
    \/ SessionLost
    \/ MonitorCtxDone
    \/ MonitorTick
    \/ MonitorIsConnected

XmppSpec == XmppInit /\ [][XmppNext]_vars

\* The Go scheduler runs every goroutine that can run: a call waiting for a free
\* lock gets it when it stays free.
XmppFairSpec ==
    /\ XmppSpec
    /\ \A g \in DisconnectCallers : WF_vars(DisconnectLock(g))
    /\ \A g \in Callers : WF_vars(SetConnected(g))

\* In addition the monitor's timer fires while the monitor waits for it, and the
\* monitor gets the read lock when it stays free.
MonitorFairSpec ==
    /\ XmppFairSpec
    /\ WF_vars(MonitorTick)
    /\ WF_vars(MonitorIsConnected)
    /\ WF_vars(MonitorCtxDone)

\* handleReconnection run on a client whose Connect was refused by the server
\* (Start has failed: a session object exists, the flag is false, no client is
\* registered), from its first wait for the timer on.
ReconnectInit ==
    /\ QueueUnused
    /\ NoMerge
    /\ NoPipeline
    /\ NoDelivery
    /\ NoProbe
    /\ reconnection \in [Enabled : {TRUE}, MaxAttempts : 0..MaxReconnect]
    /\ clients = {}
    /\ mmu = Free
    /\ webhookChanClosed = 0
    /\ dispatcher = "none"
    /\ client = "down"
    /\ connected = FALSE
    /\ cmu = Free
    /\ cancelSet = TRUE
    /\ ctxDone = FALSE
    /\ monitor = [pc |-> "timer", attempt |-> 0]
    /\ messageChan = <<>>
    /\ messageChanClosed = 0
    /\ call = [g \in Callers |-> IF g = Starter THEN "failed" ELSE "idle"]
    /\ event = NoEvent
    /\ cycle = [n |-> 0, attempts |-> 0, done |-> TRUE]
    /\ crashed = "none"

ReconnectNext ==
    \/ MonitorTick
    \/ MonitorIsConnected
    \/ MonitorCtxDone
    \/ ReconnectSleep
    \/ ReconnectConnect
    \/ \E g \in Callers \cup {Monitor} : SetConnected(g)
    \/ \E g \in Disconnectors : DisconnectCall(g)
    \/ \E g \in DisconnectCallers : DisconnectLock(g)
    \/ \E op \in SendOps, arg \in SendArgs : ClientSend(op, arg)
    \/ \E st \in Stanzas : HandleStanza(st)
    \/ SessionLost

ReconnectSpec == ReconnectInit /\ [][ReconnectNext]_vars

\* ---------------------------------------------------------------- the inbound pipeline
\* Client.messageChan -> mergeChannels forwarder -> dispatchWebhooks ->
\* xmpp Manager.webhookChan -> processXMPPMessages -> Service.SendMessage ->
\* Service.messageQueue -> processWebhooks.
xvarsButChan == <<reconnection, clients, mmu, webhookChanClosed, dispatcher, client,
                  connected, cmu, cancelSet, ctxDone, monitor, messageChanClosed, call,
                  event, cycle, crashed>>
mvarsButForwarder == <<channels, wg, closer, outputClosed, reader, merged>>
qvarsButSend == <<config, running, queue, closed, cancelFunc, cancelled, worker, started,
                  stats, now, panicked, deq, reqs, sleeps, rejected, lastAttempt,
                  lastOutcome, health>>

Alive == panicked = "none" /\ crashed = "none"

\* The handler of setupHandlers for the next stanza with body and sender: the
\* non-blocking send into messageChan, or the drop when it is full.
HandleMessage ==
    /\ Alive
    /\ client = "up"
    /\ arrived < MaxInbound
    /\ arrived' = arrived + 1
    /\ messageChan' = IF ChanHasRoom THEN Append(messageChan, SourceMsg(1, arrived + 1))
                      ELSE messageChan
    /\ UNCHANGED <<dispatch, webhookChan, loop, loopCtxDone, taken, handed, origin>>
    /\ UNCHANGED <<tvars, qvars, mvars, xvarsButChan>>

\* mergeChannels, the goroutine of the client's channel: for msg := range c.
ClientForwarderRecv ==
    /\ Alive
    /\ forwarder[1].pc = "range"
    /\ messageChan # <<>>
    /\ forwarder' = [forwarder EXCEPT ![1] = [pc |-> "send", msg |-> Head(messageChan)]]
    /\ messageChan' = Tail(messageChan)
    /\ UNCHANGED pvars
    /\ UNCHANGED <<tvars, qvars, mvarsButForwarder, xvarsButChan>>

\* output <- msg in the forwarder meets msg, ok := <-merged in dispatchWebhooks:
\* the channel is unbuffered, both sides complete in one step.
DispatcherRecv ==
    /\ Alive
    /\ forwarder[1].pc = "send"
    /\ dispatch.pc = "select"
    /\ dispatch' = [pc |-> "forward", msg |-> forwarder[1].msg]
    /\ forwarder' = [forwarder EXCEPT ![1] = [pc |-> "range", msg |-> <<0, 0>>]]
    /\ UNCHANGED <<arrived, webhookChan, loop, loopCtxDone, taken, handed, origin>>
    /\ UNCHANGED <<tvars, qvars, mvarsButForwarder, xvars>>

\* dispatchWebhooks: the non-blocking send into m.webhookChan; the message is
\* dropped when the channel is full.
WebhookChanHasRoom == Len(webhookChan) < WebhookChanCap

\* The inner select has a default case: one of its cases can always be taken.
ForwardReady_Blocking == WebhookChanHasRoom

ForwardReady == TRUE

DispatcherForward ==
    /\ Alive
    /\ dispatch.pc = "forward"
    /\ ForwardReady
    /\ webhookChan' = IF WebhookChanHasRoom THEN Append(webhookChan, dispatch.msg)
                      ELSE webhookChan
    /\ dispatch' = [pc |-> "select", msg |-> <<0, 0>>]
    /\ UNCHANGED <<arrived, loop, loopCtxDone, taken, handed, origin>>
    /\ UNCHANGED <<tvars, qvars, mvars, xvars>>

\* webhook Manager.Start after Service.Start returned nil: go processXMPPMessages.
LoopSpawn ==
    /\ Alive
    /\ loop.pc = "none"
    /\ started >= 1
    /\ loop' = [pc |-> "select", msg |-> <<0, 0>>]
    /\ UNCHANGED <<arrived, dispatch, webhookChan, loopCtxDone, taken, handed, origin>>
    /\ UNCHANGED <<tvars, qvars, mvars, xvars>>

\* The context handed to webhook Manager.Start is cancelled.
CancelLoop ==
    /\ Alive
    /\ loop.pc # "none"
    /\ ~loopCtxDone
    /\ loopCtxDone' = TRUE
    /\ UNCHANGED <<arrived, dispatch, webhookChan, loop, taken, handed, origin>>
    /\ UNCHANGED <<tvars, qvars, mvars, xvars>>

LoopLeaves_OnStop == ~running

\* The condition under which the ctx.Done() case of the loop's select is ready.
LoopLeaves == loopCtxDone

\* processXMPPMessages, case <-ctx.Done(): return.
LoopCtxDone ==
    /\ Alive
    /\ loop.pc = "select"
    /\ LoopLeaves
    /\ loop' = [pc |-> "exited", msg |-> <<0, 0>>]
    /\ UNCHANGED <<arrived, dispatch, webhookChan, loopCtxDone, taken, handed, origin>>
    /\ UNCHANGED <<tvars, qvars, mvars, xvars>>

\* processXMPPMessages, case msg, ok := <-messageChan with ok = true.
LoopRecv ==
    /\ Alive
    /\ loop.pc = "select"
    /\ webhookChan # <<>>
    /\ loop' = [pc |-> "handle", msg |-> Head(webhookChan)]
    /\ webhookChan' = Tail(webhookChan)
    /\ taken' = Append(taken, Head(webhookChan))
    /\ UNCHANGED <<arrived, dispatch, loopCtxDone, handed, origin>>
    /\ UNCHANGED <<tvars, qvars, mvars, xvars>>

\* handleIncomingMessage: m.webhookService.SendMessage(msg) up to the end of its
\* isRunning() check.  The not-running error is logged and the handler returns.
LoopSendMessage_ExitOnError ==
    /\ Alive
    /\ loop.pc = "handle"
    /\ sender.pc = "idle"
    /\ handed' = Append(handed, loop.msg)
    /\ IF ~running
       THEN /\ ret' = Returned("SendMessage", "not running", TRUE)
            /\ loop' = [pc |-> "exited", msg |-> <<0, 0>>]
            /\ UNCHANGED <<sender, nextMsg, origin>>
       ELSE /\ nextMsg <= MaxMsgs
            /\ sender' = [pc |-> "checked", msg |-> nextMsg]
            /\ nextMsg' = nextMsg + 1
            /\ origin' = [origin EXCEPT ![nextMsg] = loop.msg]
            /\ loop' = [loop EXCEPT !.pc = "sending"]
            /\ UNCHANGED ret
    /\ UNCHANGED <<arrived, dispatch, webhookChan, loopCtxDone, taken>>
    /\ UNCHANGED <<tvars, qvarsButSend, mvars, xvars>>

LoopSendMessage ==
    /\ Alive
    /\ loop.pc = "handle"
    /\ sender.pc = "idle"
    /\ handed' = Append(handed, loop.msg)
    /\ IF ~running
       THEN /\ ret' = Returned("SendMessage", "not running", TRUE)
            /\ loop' = [pc |-> "select", msg |-> <<0, 0>>]
            /\ UNCHANGED <<sender, nextMsg, origin>>
       ELSE /\ nextMsg <= MaxMsgs
            /\ sender' = [pc |-> "checked", msg |-> nextMsg]
            /\ nextMsg' = nextMsg + 1
            /\ origin' = [origin EXCEPT ![nextMsg] = loop.msg]
            /\ loop' = [loop EXCEPT !.pc = "sending"]
            /\ UNCHANGED ret
    /\ UNCHANGED <<arrived, dispatch, webhookChan, loopCtxDone, taken>>
    /\ UNCHANGED <<tvars, qvarsButSend, mvars, xvars>>

\* handleIncomingMessage returns after SendMessage returned nil or the
\* queue-full error (which is logged); the loop is back at its select.
LoopReturn ==
    /\ Alive
    /\ loop.pc = "sending"
    /\ sender.pc = "idle"
    /\ loop' = [pc |-> "select", msg |-> <<0, 0>>]
    /\ UNCHANGED <<arrived, dispatch, webhookChan, loopCtxDone, taken, handed, origin>>
    /\ UNCHANGED <<tvars, qvars, mvars, xvars>>

\* The registry has started and holds its connected default client, the
\* dispatcher waits on the fan-in of the client's channel; the webhook manager
\* is about to be started.
PipelineInit ==
    /\ QueueInit
    /\ config.URL # ""
    /\ config.RetryAttempts = 1
    /\ channels = [i \in Sources |-> [len |-> 0, sent |-> 0, buf |-> <<>>, closed |-> TRUE]]
    /\ forwarder = [i \in Sources |->
                      [pc |-> IF i = 1 THEN "range" ELSE "none", msg |-> <<0, 0>>]]
    /\ wg = 1
    /\ closer = "wait"
    /\ outputClosed = 0
    /\ reader = "reading"
    /\ merged = <<>>
    /\ reconnection = [Enabled |-> FALSE, MaxAttempts |-> 0]
    /\ clients = {"default"}
    /\ mmu = Free
    /\ webhookChanClosed = 0
    /\ dispatcher = "running"
    /\ client = "up"
    /\ connected = TRUE
    /\ cmu = Free
    /\ cancelSet = TRUE
    /\ ctxDone = FALSE
    /\ monitor = [pc |-> "exited", attempt |-> 0]
    /\ messageChan = <<>>
    /\ messageChanClosed = 0
    /\ call = [g \in Callers |-> IF g = Starter THEN "returned" ELSE "idle"]
    /\ event = NoEvent
    /\ cycle = [n |-> 0, attempts |-> 0, done |-> TRUE]
    /\ crashed = "none"
    /\ arrived = 0
    /\ dispatch = [pc |-> "select", msg |-> <<0, 0>>]
    /\ webhookChan = <<>>
    /\ loop = [pc |-> "none", msg |-> <<0, 0>>]
    /\ loopCtxDone = FALSE
    /\ taken = <<>>
    /\ handed = <<>>
    /\ origin = [m \in Msgs |-> <<0, 0>>]
    /\ NoDelivery
    /\ NoProbe

\* With RetryAttempts = 1 sendWebhook never sleeps between attempts
\* (attempt < RetryAttempts is false), so the worker has no sleep step here.
PipelineNext ==
    \/ HandleMessage
    \/ ClientForwarderRecv
    \/ DispatcherRecv
    \/ DispatcherForward
    \/ LoopSpawn
    \/ CancelLoop
    \/ LoopCtxDone
    \/ LoopRecv
    \/ LoopSendMessage
    \/ LoopReturn
    \/ Start
    \/ Stop
    \/ SendEnqueue
    \/ \E w \in Workers : WorkerCtxDone(w)
    \/ \E w \in Workers : WorkerClosed(w)
    \/ \E w \in Workers : WorkerRecv(w)
    \/ \E w \in Workers : WorkerAttempt(w)

PipelineSpec == PipelineInit /\ [][PipelineNext]_vars

\* ---------------------------------------------------------------- test mode: strings
\* A Go string is modelled as the sequence of its characters, each a
\* one-character string; the operators below are the functions of package
\* strings and net/url that TestModeUtils calls, as they act on such sequences.
Min(S) == CHOOSE x \in S : \A y \in S : x <= y
Max(S) == CHOOSE x \in S : \A y \in S : x >= y

\* The white space strings.TrimSpace removes that occurs in the bodies drawn.
IsSpace(c) == c \in {" ", "\t"}

\* strings.TrimSpace: leading and trailing white space removed.
TrimSpace(s) ==
    LET solid == {i \in 1..Len(s) : ~IsSpace(s[i])}
    IN IF solid = {} THEN <<>> ELSE SubSeq(s, Min(solid), Max(solid))

\* strings.HasPrefix, strings.TrimPrefix, strings.Index (0 for "not found"),
\* strings.Contains, strings.Replace(s, old, new, 1).
HasPrefix(s, prefix) == Len(s) >= Len(prefix) /\ SubSeq(s, 1, Len(prefix)) = prefix

TrimPrefix(s, prefix) == IF HasPrefix(s, prefix) THEN SubSeq(s, Len(prefix) + 1, Len(s)) ELSE s

Index(s, sub) ==
    LET at == {i \in 1..(Len(s) - Len(sub) + 1) : SubSeq(s, i, i + Len(sub) - 1) = sub}
    IN IF at = {} THEN 0 ELSE Min(at)

Contains(s, sub) == Index(s, sub) # 0

ReplaceFirst(s, old, new) ==
    LET i == Index(s, old)
    IN IF i = 0 THEN s
       ELSE SubSeq(s, 1, i - 1) \o new \o SubSeq(s, i + Len(old), Len(s))

\* The concatenation of a sequence of strings.
RECURSIVE Concat(_)
Concat(parts) == IF parts = <<>> THEN <<>> ELSE Head(parts) \o Concat(Tail(parts))

\* All sequences of at most n elements of S.
UpTo(S, n) == UNION {[1..k -> S] : k \in 0..n}

\* The literal prefix "[test]".
TestPrefix == <<"[", "t", "e", "s", "t", "]">>
Webhook == <<"w", "e", "b", "h", "o", "o", "k">>
WebhookTest == <<"w", "e", "b", "h", "o", "o", "k", "-", "t", "e", "s", "t">>
DefaultSuffix == <<"-", "t", "e", "s", "t">>
StagingSuffix == <<"-", "s", "t", "a", "g", "i", "n", "g">>

\* ---------------------------------------------------------------- test mode: net/url
\* url.Parse for the URLs drawn below, which have the form
\* scheme "://" host [":" port] path ["?" query] without user info and
\* fragment: the scheme ends at the first ":", the query starts at the first
\* "?", the authority ends at the first "/" after "//"; a port that is not a
\* number and a path with a malformed escape are errors.  The path is kept
\* decoded in Path, and RawPath keeps the original text only when that differs
\* from the default encoding of Path.
IsDigit(c) == c \in {"0", "1", "2", "3", "4", "5", "6", "7", "8", "9"}

HexDigits == {"0", "1", "2", "3", "4", "5", "6", "7", "8", "9", "A", "B", "C", "D", "E", "F"}

\* The escapes %XX that occur in the paths drawn, with the character they stand for.
Unhex(pair) ==
    CASE pair = <<"2", "F">> -> "/"
      [] pair = <<"2", "0">> -> " "
      [] pair = <<"2", "5">> -> "%"
      [] OTHER -> "?"

\* validEncoding / unescape in path mode.
RECURSIVE ValidEscapes(_)
ValidEscapes(s) ==
    IF s = <<>> THEN TRUE
    ELSE IF Head(s) = "%"
         THEN /\ Len(s) >= 3
              /\ s[2] \in HexDigits
              /\ s[3] \in HexDigits
              /\ ValidEscapes(SubSeq(s, 4, Len(s)))
         ELSE ValidEscapes(Tail(s))

RECURSIVE Unescape(_)
Unescape(s) ==
    IF s = <<>> THEN <<>>
    ELSE IF Head(s) = "%"
         THEN <<Unhex(SubSeq(s, 2, 3))>> \o Unescape(SubSeq(s, 4, Len(s)))
         ELSE <<Head(s)>> \o Unescape(Tail(s))

\* escape in path mode: letters, digits, "-", "_", ".", "~" and the reserved
\* characters other than "?" stay, every other character becomes %XX.
EscapeChar(c) ==
    CASE c = " " -> <<"%", "2", "0">>
      [] c = "%" -> <<"%", "2", "5">>
      [] c = "?" -> <<"%", "3", "F">>
      [] OTHER -> <<c>>

RECURSIVE Escape(_)
Escape(s) == IF s = <<>> THEN <<>> ELSE EscapeChar(Head(s)) \o Escape(Tail(s))

\* strings.ToLower on a scheme.
ToLowerChar(c) ==
    CASE c = "H" -> "h"
      [] c = "T" -> "t"
      [] c = "P" -> "p"
      [] c = "S" -> "s"
      [] OTHER -> c

ToLower(s) == [i \in 1..Len(s) |-> ToLowerChar(s[i])]

ParseError == [err |-> TRUE, Scheme |-> <<>>, Host |-> <<>>, Path |-> <<>>, RawPath |-> <<>>,
               RawQuery |-> <<>>, ForceQuery |-> FALSE]

Parse(rawURL) ==
    LET colon == Index(rawURL, <<":">>)
        rest0 == SubSeq(rawURL, colon + 1, Len(rawURL))
        quest == Index(rest0, <<"?">>)
        force == quest # 0 /\ quest = Len(rest0)
        rest1 == IF quest = 0 THEN rest0 ELSE SubSeq(rest0, 1, quest - 1)
        query == IF quest = 0 THEN <<>> ELSE SubSeq(rest0, quest + 1, Len(rest0))
        auth0 == SubSeq(rest1, 3, Len(rest1))
        slash == Index(auth0, <<"/">>)
        authority == IF slash = 0 THEN auth0 ELSE SubSeq(auth0, 1, slash - 1)
        p == IF slash = 0 THEN <<>> ELSE SubSeq(auth0, slash, Len(auth0))
        portAt == Index(authority, <<":">>)
        port == IF portAt = 0 THEN <<>> ELSE SubSeq(authority, portAt + 1, Len(authority))
        path == Unescape(p)
    IN IF colon <= 1 \/ ~HasPrefix(rest1, <<"/", "/">>) THEN ParseError
       ELSE IF \E i \in 1..Len(port) : ~IsDigit(port[i]) THEN ParseError
       ELSE IF ~ValidEscapes(p) THEN ParseError
       ELSE [err |-> FALSE,
             Scheme |-> ToLower(SubSeq(rawURL, 1, colon - 1)),
             Host |-> authority,
             Path |-> path,
             RawPath |-> IF p = Escape(path) THEN <<>> ELSE p,
             RawQuery |-> query,
             ForceQuery |-> force]

\* URL.EscapedPath: RawPath if it is a valid encoding of Path, else the default
\* encoding of Path.
EscapedPath_Raw(u) == IF u.RawPath # <<>> THEN u.RawPath ELSE Escape(u.Path)

EscapedPath(u) ==
    IF u.RawPath # <<>> /\ ValidEscapes(u.RawPath) /\ Unescape(u.RawPath) = u.Path
    THEN u.RawPath
    ELSE Escape(u.Path)

\* URL.String for a URL with scheme and host.
URLString(u) ==
    u.Scheme \o <<":", "/", "/">> \o u.Host \o EscapedPath(u)
      \o (IF u.ForceQuery \/ u.RawQuery # <<>> THEN <<"?">> \o u.RawQuery ELSE <<>>)

\* ---------------------------------------------------------------- test mode: TestModeUtils
isTestMessage(body) == HasPrefix(TrimSpace(body), TestPrefix)

removeTestPrefix_KeepSpace(body) ==
    LET trimmed == TrimSpace(body)
    IN IF HasPrefix(trimmed, TestPrefix) THEN TrimPrefix(trimmed, TestPrefix) ELSE body

removeTestPrefix(body) ==
    LET trimmed == TrimSpace(body)
    IN IF HasPrefix(trimmed, TestPrefix)
       THEN TrimSpace(TrimPrefix(trimmed, TestPrefix))
       ELSE body

simpleURLModification(baseURL, testModeSuffix) ==
    IF Contains(baseURL, Webhook) /\ ~Contains(baseURL, WebhookTest)
    THEN ReplaceFirst(baseURL, Webhook, Webhook \o testModeSuffix)
    ELSE baseURL

getTestWebhookURL(baseURL, testModeSuffix) ==
    IF baseURL = <<>> THEN baseURL
    ELSE LET parsedURL == Parse(baseURL)
         IN IF parsedURL.err THEN simpleURLModification(baseURL, testModeSuffix)
            ELSE IF Contains(parsedURL.Path, Webhook) /\ ~Contains(parsedURL.Path, WebhookTest)
            THEN URLString([parsedURL EXCEPT
                              !.Path = ReplaceFirst(parsedURL.Path, Webhook,
                                                    Webhook \o testModeSuffix)])
            ELSE baseURL

ProcessTestMessage(body, webhookURL, testModeSuffix) ==
    IF ~isTestMessage(body)
    THEN [body |-> body, url |-> webhookURL, isTestMode |-> FALSE]
    ELSE [body |-> removeTestPrefix(body),
          url |-> getTestWebhookURL(webhookURL, testModeSuffix),
          isTestMode |-> TRUE]

\* ---------------------------------------------------------------- test mode: inputs
\* Bodies are made of at most MaxParts of these pieces, URL paths of at most
\* MaxSegments of these segments.
BodyPieces ==
    {<<" ">>,
     <<"\t">>,
     <<"[", "t", "e", "s", "t", "]">>,
     <<"[", "T", "E", "S", "T", "]">>,
     <<"[", "t", "e", "s">>,
     <<"h", "i">>}

Bodies == {Concat(parts) : parts \in UpTo(BodyPieces, MaxParts)}

PathSegments ==
    {<<"/", "w", "e", "b", "h", "o", "o", "k">>,
     <<"/", "w", "e", "b", "h", "o", "o", "k", "-", "t", "e", "s", "t">>,
     <<"/", "a", "p", "i">>,
     <<"/", "a", "%", "2", "F", "b">>,
     <<"/", "m", "y", "w", "e", "b", "h", "o", "o", "k", "s">>}

Paths == {Concat(parts) : parts \in UpTo(PathSegments, MaxSegments)}

Https == <<"h", "t", "t", "p", "s">>
Hosts ==
    {<<"e", "x", "a", "m", "p", "l", "e", ".", "c", "o", "m">>,
     <<"w", "e", "b", "h", "o", "o", "k", ".", "e", "x", "a", "m", "p", "l", "e", ".", "c", "o", "m", ":", "8", "0", "8", "0">>}

Queries ==
    {<<>>,
     <<"?", "x", "=", "w", "e", "b", "h", "o", "o", "k">>,
     <<"?">>}

\* A URL as its parts and as the text assembled from them.
URLParts == [scheme : {Https}, host : Hosts, path : Paths, query : Queries]

RawURL(parts) == parts.scheme \o <<":", "/", "/">> \o parts.host \o parts.path \o parts.query

\* A text url.Parse rejects (the port is not a number).
BadPortURL ==
    <<"h", "t", "t", "p", "s", ":", "/", "/", "w", "e", "b", "h", "o", "o", "k", ".", "e", "x",
      "a", "m", "p", "l", "e", ".", "c", "o", "m", ":", "p", "o", "r", "t", "/", "h", "o", "o",
      "k">>
ProductionURL ==
    <<"h", "t", "t", "p", "s", ":", "/", "/", "e", "x", "a", "m", "p", "l", "e", ".", "c", "o",
      "m", "/", "w", "e", "b", "h", "o", "o", "k">>
TestBody == <<"[", "t", "e", "s", "t", "]", " ", "h", "i">>

Suffixes == {DefaultSuffix, StagingSuffix}

\* ---------------------------------------------------------------- test mode: the functions applied
\* The text of the URL a probe carries.
ProbeURL(p) ==
    CASE p.kind = "empty" -> <<>>
      [] p.kind = "unparsable" -> BadPortURL
      [] OTHER -> RawURL(p.parts)

ProductionParts == [scheme |-> Https, host |-> <<"e", "x", "a", "m", "p", "l", "e", ".", "c", "o", "m">>,
                    path |-> <<"/">> \o Webhook, query |-> <<>>]

NoAnswer == [fn |-> "none", body |-> <<>>, url |-> <<>>, isTestMode |-> FALSE]

\* Every body with the production URL, and the test body with every URL and
\* suffix, the empty URL and a text that does not parse.
TestModeInit ==
    /\ QueueUnused
    /\ NoMerge
    /\ NoXmpp
    /\ NoPipeline
    /\ NoDelivery
    /\ reconnection = [Enabled |-> FALSE, MaxAttempts |-> 0]
    /\ probe \in {[kind |-> "parts", body |-> b, parts |-> ProductionParts,
                   suffix |-> DefaultSuffix] : b \in Bodies}
              \cup {[kind |-> "parts", body |-> TestBody, parts |-> u, suffix |-> s] :
                      u \in URLParts, s \in Suffixes}
              \cup {[kind |-> k, body |-> TestBody, parts |-> ProductionParts,
                     suffix |-> DefaultSuffix] : k \in {"empty", "unparsable"}}
    /\ answer = NoAnswer
    /\ apiStatus = NoStatus
    /\ registry = NoRegistry
    /\ lk = NoLocks

ProcessTestMessageCall ==
    /\ answer' = [fn |-> "ProcessTestMessage"]
                   @@ ProcessTestMessage(probe.body, ProbeURL(probe), probe.suffix)
    /\ UNCHANGED <<probe, dconfig, msgBody, send, tries, lastTry, issued, apiStatus, registry, lk>>
    /\ UNCHANGED <<qvars, mvars, xvars, pvars>>

getTestWebhookURLCall ==
    /\ answer' = [fn |-> "getTestWebhookURL", body |-> <<>>,
                  url |-> getTestWebhookURL(ProbeURL(probe), probe.suffix),
                  isTestMode |-> FALSE]
    /\ UNCHANGED <<probe, dconfig, msgBody, send, tries, lastTry, issued, apiStatus, registry, lk>>
    /\ UNCHANGED <<qvars, mvars, xvars, pvars>>

\* getTestWebhookURL applied to the URL its previous call returned.
getTestWebhookURLAgain ==
    /\ answer.fn = "getTestWebhookURL"
    /\ answer' = [fn |-> "getTestWebhookURL again", body |-> <<>>,
                  url |-> getTestWebhookURL(answer.url, probe.suffix),
                  isTestMode |-> FALSE]
    /\ UNCHANGED <<probe, dconfig, msgBody, send, tries, lastTry, issued, apiStatus, registry, lk>>
    /\ UNCHANGED <<qvars, mvars, xvars, pvars>>

TestModeNext ==
    \/ ProcessTestMessageCall
    \/ getTestWebhookURLCall
    \/ getTestWebhookURLAgain

TestModeSpec == TestModeInit /\ [][TestModeNext]_vars

\* ---------------------------------------------------------------- one sendWebhook call with its body
\* sendWebhook(msg) followed through its attempts with the text of the message
\* body and of the configured URL, for the messages test mode is about.
\* dconfig.Suffix is what NewTestModeUtils made of test_mode_suffix.

\* sendWebhookAttempt goes on to build a request only with a configured URL.
URLConfigured_Always(url) == TRUE

URLConfigured(url) == url # <<>>

\* sendWebhookAttempt receives the payload by value: writing the processed body
\* into its copy leaves the payload of sendWebhook as it was.
PayloadAfter_Shared(payloadBody, written) == written

PayloadAfter(payloadBody, written) == payloadBody

\* The URLs configured: none, the production webhook, an endpoint that is
\* already a test webhook.
DeliveryURLs == {<<>>, ProductionURL, ProductionURL \o DefaultSuffix}

Failed(err) == err # "nil"

DeliveryInit ==
    /\ QueueUnused
    /\ NoMerge
    /\ NoXmpp
    /\ NoPipeline
    /\ NoProbe
    /\ reconnection = [Enabled |-> FALSE, MaxAttempts |-> 0]
    /\ dconfig \in [URL : DeliveryURLs, RetryAttempts : 0..MaxRetry, Suffix : Suffixes]
    /\ msgBody \in Bodies
    /\ send = [pc |-> "none", attempt |-> 0, lastErr |-> "", payloadBody |-> <<>>]
    /\ tries = 0
    /\ lastTry = NoTry
    /\ issued = 0

\* sendWebhook up to its first attempt: the payload is built from the message;
\* with no attempt to make the loop is skipped and the failure is recorded with
\* "unknown error".
DeliveryStart ==
    /\ send.pc = "none"
    /\ IF 1 <= dconfig.RetryAttempts
       THEN /\ send' = [pc |-> "attempt", attempt |-> 1, lastErr |-> "",
                        payloadBody |-> msgBody]
            /\ UNCHANGED <<stats, now, lastOutcome>>
       ELSE /\ send' = [pc |-> "done", attempt |-> 1, lastErr |-> "",
                        payloadBody |-> msgBody]
            /\ now' = now + 1
            /\ stats' = UpdateStats(stats, FALSE, "unknown error", now + 1)
            /\ lastOutcome' = "failure"
    /\ UNCHANGED <<probe, answer, dconfig, msgBody, tries, lastTry, issued, apiStatus, registry, lk>>
    /\ UNCHANGED <<config, running, queue, closed, cancelFunc, cancelled, worker, started,
                   sender, nextMsg, ret, panicked, deq, reqs, sleeps, rejected,
                   lastAttempt, health>>
    /\ UNCHANGED <<mvars, xvars, pvars>>

\* What one sendWebhookAttempt can meet with this URL.
AttemptOutcomes(url) ==
    IF URLConfigured(url)
    THEN {TransportErr} \cup {Response(s) : s \in Statuses}
    ELSE {NoURL}

\* sendWebhookAttempt(payload) as attempt a meeting outcome o: the body it
\* examined, whether and where a request went, with which test-mode header and
\* body, and the error returned.
sendWebhookAttempt(payloadBody, a, o) ==
    LET r == ProcessTestMessage(payloadBody, dconfig.URL, dconfig.Suffix)
        err == IF IsSuccess(o) THEN "nil" ELSE ErrorMsg(o)
    IN IF o.kind = "nourl"
       THEN [NoTry EXCEPT !.attempt = a, !.examined = payloadBody, !.err = err]
       ELSE [attempt |-> a, examined |-> payloadBody, err |-> err, issued |-> TRUE,
             url |-> r.url, testMode |-> r.isTestMode,
             body |-> IF r.isTestMode THEN r.body ELSE payloadBody]

\* One sendWebhookAttempt(payload) and what sendWebhook does with its result.
DeliveryAttempt ==
    /\ send.pc = "attempt"
    /\ \E o \in AttemptOutcomes(dconfig.URL) :
         /\ lastTry' = sendWebhookAttempt(send.payloadBody, send.attempt, o)
         /\ tries' = tries + 1
         /\ issued' = IF lastTry'.issued THEN issued + 1 ELSE issued
         /\ IF ~Failed(lastTry'.err)
            THEN /\ now' = now + 1
                 /\ stats' = UpdateStats(stats, TRUE, "", now + 1)
                 /\ lastOutcome' = "success"
                 /\ send' = [send EXCEPT !.pc = "done"]
            ELSE IF send.attempt < dconfig.RetryAttempts
            THEN /\ send' = [send EXCEPT !.pc = "sleep", !.lastErr = lastTry'.err,
                               !.payloadBody = IF lastTry'.issued
                                               THEN PayloadAfter(@, lastTry'.body)
                                               ELSE @]
                 /\ UNCHANGED <<stats, now, lastOutcome>>
            ELSE /\ now' = now + 1
                 /\ stats' = UpdateStats(stats, FALSE, lastTry'.err, now + 1)
                 /\ lastOutcome' = "failure"
                 /\ send' = [send EXCEPT !.pc = "done", !.lastErr = lastTry'.err]
    /\ UNCHANGED <<probe, answer, dconfig, msgBody, apiStatus, registry, lk>>
    /\ UNCHANGED <<config, running, queue, closed, cancelFunc, cancelled, worker, started,
                   sender, nextMsg, ret, panicked, deq, reqs, sleeps, rejected,
                   lastAttempt, health>>
    /\ UNCHANGED <<mvars, xvars, pvars>>

\* The backoff sleep returns and the loop goes to the next attempt.
DeliverySleep ==
    /\ send.pc = "sleep"
    /\ send' = [send EXCEPT !.pc = "attempt", !.attempt = @ + 1]
    /\ UNCHANGED <<probe, answer, dconfig, msgBody, tries, lastTry, issued, apiStatus, registry, lk>>
    /\ UNCHANGED qvars
    /\ UNCHANGED <<mvars, xvars, pvars>>

DeliveryNext ==
    \/ DeliveryStart
    \/ DeliveryAttempt
    \/ DeliverySleep

DeliverySpec == DeliveryInit /\ [][DeliveryNext]_vars

\* ---------------------------------------------------------------- the status endpoint
\* Dispatch Manager GetStatus(): what the Delivery Queue reports of itself (the
\* fields the endpoint has).
GetStatus ==
    [running |-> running, healthy |-> IsHealthy, queue_length |-> Len(queue),
     total_sent |-> stats.TotalSent, total_failed |-> stats.TotalFailed]

\* handleWebhookStatus: the response is built from literals; the handler holds
\* no reference to the Dispatch Manager.
HandleWebhookStatus ==
    /\ apiStatus' = [seq |-> 1 - apiStatus.seq, running |-> FALSE, healthy |-> FALSE,
                     queue_length |-> 0, total_sent |-> 0, total_failed |-> 0]
    /\ UNCHANGED <<probe, answer, dconfig, msgBody, send, tries, lastTry, issued, registry, lk>>
    /\ UNCHANGED <<qvars, mvars, xvars, pvars>>

StatusNext ==
    \/ Next
    \/ HandleWebhookStatus

StatusSpec == Init /\ [][StatusNext]_vars

\* ---------------------------------------------------------------- the Delivery Queue with progress
\* The worker goroutine is scheduled: an HTTP round trip ends (with a response,
\* an error or the client's timeout), a backoff sleep returns, and a worker at
\* its select with a done context or a closed empty channel takes that case.
FairSpec ==
    /\ Spec
    /\ \A w \in Workers : WF_vars(WorkerAttempt(w))
    /\ \A w \in Workers : WF_vars(WorkerSleep(w))
    /\ \A w \in Workers : WF_vars(WorkerCtxDone(w))
    /\ \A w \in Workers : WF_vars(WorkerClosed(w))

\* ---------------------------------------------------------------- the forwarding loop on its own
\* processXMPPMessages over a stream whose other end the caller owns, as in
\* TestManager_ProcessXMPPMessages: the owner sends into the channel while it
\* has room and closes it once.
StreamPut ==
    /\ Alive
    /\ webhookChanClosed = 0
    /\ arrived < MaxMsgs
    /\ WebhookChanHasRoom
    /\ webhookChan' = Append(webhookChan, SourceMsg(1, arrived + 1))
    /\ arrived' = arrived + 1
    /\ UNCHANGED <<dispatch, loop, loopCtxDone, taken, handed, origin>>
    /\ UNCHANGED <<tvars, qvars, mvars, xvars>>

StreamClose ==
    /\ Alive
    /\ webhookChanClosed = 0
    /\ webhookChanClosed' = 1
    /\ UNCHANGED <<reconnection, clients, mmu, dispatcher, client, connected, cmu, cancelSet,
                   ctxDone, monitor, messageChan, messageChanClosed, call, event, cycle,
                   crashed>>
    /\ UNCHANGED <<tvars, qvars, mvars, pvars>>

\* The receive of a closed channel yields its buffered values first and
\* ok = false only once it is empty.
StreamEnded == webhookChanClosed >= 1 /\ webhookChan = <<>>

\* processXMPPMessages, case msg, ok := <-messageChan with ok = false: return.
LoopStreamClosed ==
    /\ Alive
    /\ loop.pc = "select"
    /\ StreamEnded
    /\ loop' = [pc |-> "exited", msg |-> <<0, 0>>]
    /\ UNCHANGED <<arrived, dispatch, webhookChan, loopCtxDone, taken, handed, origin>>
    /\ UNCHANGED <<tvars, qvars, mvars, xvars>>

\* NewManager over a configured Delivery Queue and an open empty stream.
LoopInit ==
    /\ QueueInit
    /\ config.URL # ""
    /\ config.RetryAttempts = 1
    /\ NoMerge
    /\ reconnection = [Enabled |-> FALSE, MaxAttempts |-> 0]
    /\ NoXmpp
    /\ NoPipeline
    /\ NoDelivery
    /\ NoProbe

LoopNext ==
    \/ StreamPut
    \/ StreamClose
    \/ LoopSpawn
    \/ CancelLoop
    \/ LoopCtxDone
    \/ LoopStreamClosed
    \/ LoopRecv
    \/ LoopSendMessage
    \/ LoopReturn
    \/ Start
    \/ Stop
    \/ SendEnqueue
    \/ \E w \in Workers : WorkerCtxDone(w)
    \/ \E w \in Workers : WorkerClosed(w)
    \/ \E w \in Workers : WorkerRecv(w)
    \/ \E w \in Workers : WorkerAttempt(w)

LoopSpec == LoopInit /\ [][LoopNext]_vars

\* The loop goroutine is scheduled: a ready case of its select is taken and
\* handleIncomingMessage, which never blocks, runs to its end.
LoopFairSpec ==
    /\ LoopSpec
    /\ WF_vars(LoopCtxDone)
    /\ WF_vars(LoopStreamClosed)
    /\ WF_vars(LoopRecv)
    /\ WF_vars(LoopSendMessage)
    /\ WF_vars(SendEnqueue)
    /\ WF_vars(LoopReturn)

\* ---------------------------------------------------------------- Manager.Start call by call
\* Every call of Manager.Start makes its own Client (NewClient), so the calls
\* are followed one by one: call k makes client k and, when it gets that far,
\* spawns dispatcher k.  registry.default is the client m.clients["default"]
\* points to (0: no entry).
StartCalls == 1..MaxStarts

RegistryOther ==
    <<probe, answer, dconfig, msgBody, send, tries, lastTry, issued, apiStatus, lk>>

\* Manager.Start up to the return of client.Connect: NewClient, then Connect
\* fails (Start returns the error, nothing is registered) or succeeds.
RegistryConnect(k, ok) ==
    /\ Alive
    /\ registry.start[k] = "idle"
    /\ registry' = [registry EXCEPT !.start[k] = IF ok THEN "connected" ELSE "failed",
                                    !.conn[k] = IF ok THEN "up" ELSE "none"]
    /\ UNCHANGED RegistryOther
    /\ UNCHANGED <<qvars, mvars, xvars, pvars>>

\* go m.dispatchWebhooks(), unconditionally.
DispatcherAfterStart(k) == [pc |-> "collect", chans |-> {}]

\* Manager.Start after a successful Connect: m.mu.Lock(), m.clients["default"]
\* = client (whatever was there before), m.mu.Unlock(), go
\* m.dispatchWebhooks(), return nil.
RegistryRegister(k) ==
    /\ Alive
    /\ registry.start[k] = "connected"
    /\ mmu = Free
    /\ registry' = [registry EXCEPT !.start[k] = "returned",
                                    !.default = k,
                                    !.disp[k] = DispatcherAfterStart(k)]
    /\ clients' = {"default"}
    /\ UNCHANGED <<reconnection, mmu, webhookChanClosed, dispatcher, client, connected, cmu,
                   cancelSet, ctxDone, monitor, messageChan, messageChanClosed, call, event,
                   cycle, crashed>>
    /\ UNCHANGED RegistryOther
    /\ UNCHANGED <<qvars, mvars, pvars>>

\* dispatchWebhooks, lines 131-141: under the read lock the message channel of
\* every client in m.clients is collected; with none the goroutine returns.
RegistryDispatcherCollect(k) ==
    /\ Alive
    /\ registry.disp[k].pc = "collect"
    /\ mmu = Free
    /\ LET chans == IF registry.default = 0 THEN {} ELSE {registry.default}
       IN registry' = [registry EXCEPT !.disp[k] =
                         [pc |-> IF chans = {} THEN "exited" ELSE "select", chans |-> chans]]
    /\ UNCHANGED RegistryOther
    /\ UNCHANGED <<qvars, mvars, xvars, pvars>>

\* dispatchWebhooks, the 30 s case: the goroutine returns when len(m.clients)
\* differs from the number of channels it merged, and waits on otherwise.
RegistryDispatcherCheck(k) ==
    /\ Alive
    /\ registry.disp[k].pc = "select"
    /\ mmu = Free
    /\ LET currentClients == IF registry.default = 0 THEN 0 ELSE 1
       IN registry' = [registry EXCEPT !.disp[k].pc =
                         IF currentClients # Cardinality(registry.disp[k].chans)
                         THEN "exited" ELSE "select"]
    /\ UNCHANGED RegistryOther
    /\ UNCHANGED <<qvars, mvars, xvars, pvars>>

\* Manager.Stop: with a registered client it blocks in client.Disconnect
\* (Disconnect holds c.mu and calls setConnected, which locks c.mu) and keeps
\* m.mu; with none it closes m.webhookChan, which panics the second time.
RegistryStop ==
    /\ Alive
    /\ registry.stops < MaxStops
    /\ mmu = Free
    /\ registry' = [registry EXCEPT !.stops = registry.stops + 1]
    /\ IF registry.default # 0
       THEN /\ mmu' = <<"Stop", registry.stops + 1>>
            /\ UNCHANGED <<webhookChanClosed, crashed>>
       ELSE IF webhookChanClosed >= 1
            THEN /\ crashed' = "close of closed channel: webhookChan"
                 /\ UNCHANGED <<webhookChanClosed, mmu>>
            ELSE /\ webhookChanClosed' = webhookChanClosed + 1
                 /\ UNCHANGED <<mmu, crashed>>
    /\ UNCHANGED <<reconnection, clients, dispatcher, client, connected, cmu, cancelSet,
                   ctxDone, monitor, messageChan, messageChanClosed, call, event, cycle>>
    /\ UNCHANGED RegistryOther
    /\ UNCHANGED <<qvars, mvars, pvars>>

\* NewManager: nothing registered, nothing running.
RegistryInit ==
    /\ QueueInit
    /\ NoMerge
    /\ reconnection \in [Enabled : BOOLEAN, MaxAttempts : {0}]
    /\ NoXmpp
    /\ NoPipeline
    /\ NoDelivery
    /\ NoProbe

RegistryNext ==
    \/ \E k \in StartCalls, ok \in BOOLEAN : RegistryConnect(k, ok)
    \/ \E k \in StartCalls : RegistryRegister(k)
    \/ \E k \in StartCalls : RegistryDispatcherCollect(k)
    \/ \E k \in StartCalls : RegistryDispatcherCheck(k)
    \/ RegistryStop

RegistrySpec == RegistryInit /\ [][RegistryNext]_vars

\* ---------------------------------------------------------------- the mutexes written out
\* The Delivery Queue, the Registry and the Client once more, with every
\* Lock/RLock and its deferred unlock as steps of their own and the blocking
\* operations (HTTP round trip, backoff sleep, channel send and receive) as
\* positions.  One goroutine makes the API calls one after the other; the
\* workers and the dispatcher run beside it.
LockOther ==
    <<probe, answer, dconfig, msgBody, send, tries, lastTry, issued, apiStatus, registry,
      qvars, mvars, xvars, pvars>>

Mutexes == {"mu", "statsMu", "managerMu", "clientMu"}

CanLock(m) == lk[m].w = Nobody /\ lk[m].r = {}
CanRLock(m) == lk[m].w = Nobody

\* The mutexes goroutine g holds.
Held(g) == {m \in Mutexes : lk[m].w = g \/ g \in lk[m].r}

LockWorkers == {<<"worker", k>> : k \in 1..MaxStarts}

ApiIdle == [fn |-> "none", pc |-> "idle"]

ApiFns ==
    {"Start", "Stop", "SendMessage", "GetStats", "IsHealthy",
     "ManagerStart", "ManagerStop", "ManagerIsConnected"}

\* A call is made; it has not taken a lock yet.
ApiCall(fn) ==
    /\ ~lk.panicked
    /\ lk.api = ApiIdle
    /\ fn = "Start" => lk.spawned < MaxStarts
    /\ fn = "ManagerStart" => ~lk.registered
    /\ lk' = [lk EXCEPT !.api = [fn |-> fn, pc |-> "lock"]]
    /\ UNCHANGED LockOther

\* Service.Start: s.mu.Lock(); then, under the lock, the running check, the
\* spawn of the worker and running = true; the deferred Unlock.
LkStart ==
    /\ ~lk.panicked
    /\ lk.api.fn = "Start"
    /\ \/ /\ lk.api.pc = "lock"
          /\ CanLock("mu")
          /\ lk' = [lk EXCEPT !.mu.w = Api, !.api.pc = "locked"]
       \/ /\ lk.api.pc = "locked"
          /\ lk' = IF lk.running
                   THEN [lk EXCEPT !.mu.w = Nobody, !.api = ApiIdle]
                   ELSE [lk EXCEPT !.mu.w = Nobody, !.api = ApiIdle,
                                   !.running = TRUE,
                                   !.spawned = lk.spawned + 1,
                                   !.worker[lk.spawned + 1] = [pc |-> "select", attempt |-> 0]]
    /\ UNCHANGED LockOther

\* Service.Stop: s.mu.Lock(); under the lock the running check, cancelFunc(),
\* close(s.messageQueue) (a panic when it is closed already) and running =
\* false; the deferred Unlock.
LkStop ==
    /\ ~lk.panicked
    /\ lk.api.fn = "Stop"
    /\ \/ /\ lk.api.pc = "lock"
          /\ CanLock("mu")
          /\ lk' = [lk EXCEPT !.mu.w = Api, !.api.pc = "locked"]
       \/ /\ lk.api.pc = "locked"
          /\ lk' = IF ~lk.running
                   THEN [lk EXCEPT !.mu.w = Nobody, !.api = ApiIdle]
                   ELSE IF lk.closed
                   THEN [lk EXCEPT !.mu.w = Nobody, !.api = ApiIdle,
                                   !.cancelled[lk.spawned] = TRUE,
                                   !.panicked = TRUE]
                   ELSE [lk EXCEPT !.mu.w = Nobody, !.api = ApiIdle,
                                   !.cancelled[lk.spawned] = TRUE,
                                   !.closed = TRUE,
                                   !.running = FALSE]
    /\ UNCHANGED LockOther

\* Service.SendMessage: isRunning() takes and releases the read lock; the
\* select on the queue (send, or default when it is full) follows it.
LkSendMessage ==
    /\ ~lk.panicked
    /\ lk.api.fn = "SendMessage"
    /\ \/ /\ lk.api.pc = "lock"
          /\ CanRLock("mu")
          /\ lk' = [lk EXCEPT !.mu.r = @ \cup {Api}, !.api.pc = "rlocked"]
       \/ /\ lk.api.pc = "rlocked"
          /\ lk' = [lk EXCEPT !.mu.r = @ \ {Api},
                              !.api = IF lk.running THEN [fn |-> "SendMessage", pc |-> "send"]
                                      ELSE ApiIdle]
       \/ /\ lk.api.pc = "send"
          /\ lk' = IF lk.closed
                   THEN [lk EXCEPT !.api = ApiIdle, !.panicked = TRUE]
                   ELSE IF lk.queueLen < QueueCap
                   THEN [lk EXCEPT !.api = ApiIdle, !.queueLen = lk.queueLen + 1]
                   ELSE [lk EXCEPT !.api = ApiIdle]
    /\ UNCHANGED LockOther

\* Service.GetStats: s.stats.mu.RLock(), the copy, the deferred RUnlock.
LkGetStats ==
    /\ ~lk.panicked
    /\ lk.api.fn = "GetStats"
    /\ \/ /\ lk.api.pc = "lock"
          /\ CanRLock("statsMu")
          /\ lk' = [lk EXCEPT !.statsMu.r = @ \cup {Api}, !.api.pc = "rlocked"]
       \/ /\ lk.api.pc = "rlocked"
          /\ lk' = [lk EXCEPT !.statsMu.r = @ \ {Api}, !.api = ApiIdle]
    /\ UNCHANGED LockOther

\* Service.IsHealthy: isRunning(), the URL check, GetStats().
LkIsHealthy ==
    /\ ~lk.panicked
    /\ lk.api.fn = "IsHealthy"
    /\ \/ /\ lk.api.pc = "lock"
          /\ CanRLock("mu")
          /\ lk' = [lk EXCEPT !.mu.r = @ \cup {Api}, !.api.pc = "rlocked"]
       \/ /\ lk.api.pc = "rlocked"
          /\ lk' = [lk EXCEPT !.mu.r = @ \ {Api},
                              !.api = IF lk.running /\ config.URL # ""
                                      THEN [fn |-> "IsHealthy", pc |-> "stats"]
                                      ELSE ApiIdle]
       \/ /\ lk.api.pc = "stats"
          /\ CanRLock("statsMu")
          /\ lk' = [lk EXCEPT !.statsMu.r = @ \cup {Api}, !.api.pc = "statsLocked"]
       \/ /\ lk.api.pc = "statsLocked"
          /\ lk' = [lk EXCEPT !.statsMu.r = @ \ {Api}, !.api = ApiIdle]
    /\ UNCHANGED LockOther

\* processWebhooks at its select: the done context, a message of the queue, or
\* the closed empty queue.
LkProcessWebhooks(k) ==
    /\ ~lk.panicked
    /\ lk.worker[k].pc = "select"
    /\ \/ /\ lk.cancelled[k]
          /\ lk' = [lk EXCEPT !.worker[k].pc = "exited"]
       \/ /\ lk.queueLen > 0
          /\ lk' = [lk EXCEPT !.worker[k] = [pc |-> "http", attempt |-> 1],
                              !.queueLen = lk.queueLen - 1]
       \/ /\ lk.closed
          /\ lk.queueLen = 0
          /\ lk' = [lk EXCEPT !.worker[k].pc = "exited"]
    /\ UNCHANGED LockOther

\* sendWebhook: an attempt ends well (updateStats(true)), or badly with
\* attempts left (the backoff sleep, then the next attempt) or with none left
\* (updateStats(false)).
LkSendWebhook(k, ok) ==
    /\ ~lk.panicked
    /\ \/ /\ lk.worker[k].pc = "http"
          /\ lk' = [lk EXCEPT !.worker[k].pc =
                       IF ok \/ lk.worker[k].attempt >= config.RetryAttempts
                       THEN "update" ELSE "sleep"]
       \/ /\ lk.worker[k].pc = "sleep"
          /\ ok
          /\ lk' = [lk EXCEPT !.worker[k] = [pc |-> "http", attempt |-> @.attempt + 1]]
    /\ UNCHANGED LockOther

UnlockAtReturn_Missing(m, g) == lk[m]

\* defer mutex.Unlock() of a function that locked m as goroutine g.
UnlockAtReturn(m, g) == [lk[m] EXCEPT !.w = Nobody]

\* updateStats: s.stats.mu.Lock(), the counters, the deferred Unlock; the
\* worker is back at its select.
LkUpdateStats(k) ==
    /\ ~lk.panicked
    /\ \/ /\ lk.worker[k].pc = "update"
          /\ CanLock("statsMu")
          /\ lk' = [lk EXCEPT !.statsMu.w = <<"worker", k>>, !.worker[k].pc = "updating"]
       \/ /\ lk.worker[k].pc = "updating"
          /\ lk' = [lk EXCEPT !.statsMu = UnlockAtReturn("statsMu", <<"worker", k>>),
                              !.worker[k] = [pc |-> "select", attempt |-> 0]]
    /\ UNCHANGED LockOther

\* Manager.Start after client.Connect returned nil: m.mu.Lock(), the
\* registration, m.mu.Unlock(), go m.dispatchWebhooks().
LkManagerStart ==
    /\ ~lk.panicked
    /\ lk.api.fn = "ManagerStart"
    /\ \/ /\ lk.api.pc = "lock"
          /\ CanLock("managerMu")
          /\ lk' = [lk EXCEPT !.managerMu.w = Api, !.api.pc = "locked"]
       \/ /\ lk.api.pc = "locked"
          /\ lk' = [lk EXCEPT !.managerMu.w = Nobody, !.api = ApiIdle,
                              !.registered = TRUE, !.disp = "collect"]
    /\ UNCHANGED LockOther

\* Manager.Stop: m.mu.Lock(); with a client registered client.Disconnect()
\* locks c.mu and then waits for c.mu in setConnected, for ever; with none
\* close(m.webhookChan) (a panic the second time) and the deferred Unlock.
LkManagerStop ==
    /\ ~lk.panicked
    /\ lk.api.fn = "ManagerStop"
    /\ \/ /\ lk.api.pc = "lock"
          /\ CanLock("managerMu")
          /\ lk' = [lk EXCEPT !.managerMu.w = Api, !.api.pc = "locked"]
       \/ /\ lk.api.pc = "locked"
          /\ IF lk.registered
             THEN /\ CanLock("clientMu")
                  /\ lk' = [lk EXCEPT !.clientMu.w = Api, !.api.pc = "setConnected"]
             ELSE lk' = [lk EXCEPT !.managerMu.w = Nobody, !.api = ApiIdle,
                                   !.streamClosed = TRUE,
                                   !.panicked = lk.streamClosed]
    /\ UNCHANGED LockOther

\* Manager.IsConnected: GetDefaultClient() under the read lock of m.mu, then
\* the client's isConnected() under the read lock of c.mu.
LkManagerIsConnected ==
    /\ ~lk.panicked
    /\ lk.api.fn = "ManagerIsConnected"
    /\ \/ /\ lk.api.pc = "lock"
          /\ CanRLock("managerMu")
          /\ lk' = [lk EXCEPT !.managerMu.r = @ \cup {Api}, !.api.pc = "rlocked"]
       \/ /\ lk.api.pc = "rlocked"
          /\ lk' = [lk EXCEPT !.managerMu.r = @ \ {Api},
                              !.api = IF lk.registered
                                      THEN [fn |-> "ManagerIsConnected", pc |-> "client"]
                                      ELSE ApiIdle]
       \/ /\ lk.api.pc = "client"
          /\ CanRLock("clientMu")
          /\ lk' = [lk EXCEPT !.clientMu.r = @ \cup {Api}, !.api.pc = "clientLocked"]
       \/ /\ lk.api.pc = "clientLocked"
          /\ lk' = [lk EXCEPT !.clientMu.r = @ \ {Api}, !.api = ApiIdle]
    /\ UNCHANGED LockOther

\* dispatchWebhooks: the channels are collected under the read lock; the
\* goroutine then waits at its select (receive from the fan-in, send into the
\* stream) and every 30 s reads len(m.clients) under the read lock.
LkDispatchWebhooks ==
    /\ ~lk.panicked
    /\ \/ /\ lk.disp \in {"collect", "select"}
          /\ CanRLock("managerMu")
          /\ lk' = [lk EXCEPT !.managerMu.r = @ \cup {Dispatcher},
                              !.disp = IF lk.disp = "collect" THEN "collecting"
                                       ELSE "checking"]
       \/ /\ lk.disp \in {"collecting", "checking"}
          /\ lk' = [lk EXCEPT !.managerMu.r = @ \ {Dispatcher}, !.disp = "select"]
    /\ UNCHANGED LockOther

LockInit ==
    /\ QueueInit
    /\ NoMerge
    /\ reconnection = [Enabled |-> FALSE, MaxAttempts |-> 0]
    /\ NoXmpp
    /\ NoPipeline
    /\ NoDelivery
    /\ NoProbe

LockNext ==
    \/ \E fn \in ApiFns : ApiCall(fn)
    \/ LkStart
    \/ LkStop
    \/ LkSendMessage
    \/ LkGetStats
    \/ LkIsHealthy
    \/ \E k \in 1..MaxStarts : LkProcessWebhooks(k)
    \/ \E k \in 1..MaxStarts, ok \in BOOLEAN : LkSendWebhook(k, ok)
    \/ \E k \in 1..MaxStarts : LkUpdateStats(k)
    \/ LkManagerStart
    \/ LkManagerStop
    \/ LkManagerIsConnected
    \/ LkDispatchWebhooks

LockSpec == LockInit /\ [][LockNext]_vars

\* ---------------------------------------------------------------- observations
\* Worker goroutines that have been spawned and have not returned.
LiveWorkers == {w \in Workers : worker[w].pc \notin {"unborn", "exited"}}

\* Worker goroutines ever spawned.
SpawnedWorkers == {w \in Workers : worker[w].pc # "unborn"}

\* m is inside sendWebhook of some worker.
InFlight(m) == \E w \in Workers : worker[w].msg = m

\* m was received and its sendWebhook call has returned.
Completed(m) == deq[m] >= 1 /\ ~InFlight(m)

\* Completed(m) in the state a step leads to.
CompletedAfter(m) == deq'[m] >= 1 /\ \A w \in Workers : worker'[w].msg # m

\* The sendWebhook call holding m returns in this step.
NewlyCompleted(m) == ~Completed(m) /\ CompletedAfter(m)

\* A step in which the named API call returns.
Returns(op) == ret'.seq # ret.seq /\ ret'.op = op

\* A step in which SendMessage is entered (its isRunning check).
SendCallStep == sender.pc = "idle" /\ (sender'.pc = "checked" \/ Returns("SendMessage"))

\* A step in which SendMessage executes its select.
SendSelectStep ==
    /\ sender.pc = "checked"
    /\ (sender'.pc = "idle" \/ (panicked = "none" /\ panicked' = "send on closed channel"))

\* A step in which a sendWebhookAttempt finishes.
AttemptStep == lastAttempt' # lastAttempt

\* The success range of the wire contract, stated on the outcome itself.
InSuccessRange(o) == o.kind = "response" /\ o.status \in 200..299

\* The sleeps a message takes when all n attempts fail: 1, 4, ..., (n-1)^2.
ExpectedSleeps(n) == [i \in 1..(IF n > 1 THEN n - 1 ELSE 0) |-> i * i]

\* ---------------------------------------------------------------- claims

\* C1: a SendMessage that reaches its select while the service is running and
\* the queue has free capacity returns nil with the message appended to the
\* queue, and no message is ever received from the queue twice.
C1_EnqueueAccepted ==
    [][ /\ (SendSelectStep /\ running /\ Len(queue) < QueueCap)
          => (Returns("SendMessage") /\ ret'.err = "nil"
              /\ queue' = Append(queue, sender.msg))
        /\ \A m \in Msgs : deq'[m] <= 1 ]_vars

\* C2: a worker returns only when the queue is closed and holds no message, so
\* every message buffered at Stop is received before the worker exits.
C2_ExitOnlyWhenDrained ==
    [][ \A w \in Workers :
          (worker[w].pc # "exited" /\ worker'[w].pc = "exited")
            => (closed /\ queue = <<>>) ]_vars

\* C3: at most one worker goroutine is alive at any time.
C3_SingleConsumer == Cardinality(LiveWorkers) <= 1

\* C4: a SendMessage that reaches its select on a full queue returns the
\* queue-full error and leaves the queue as it was; the queue never holds more
\* than its capacity; a rejected message is never received or delivered.
C4_QueueFull ==
    [][ /\ (SendSelectStep /\ Len(queue) >= QueueCap)
          => (Returns("SendMessage") /\ ret'.err = "queue full" /\ queue' = queue)
        /\ Len(queue') <= QueueCap
        /\ \A m \in rejected' : deq'[m] = 0 /\ reqs'[m] = 0 /\ m \notin Range(queue') ]_vars

\* C5: SendMessage entered while the service is not running returns the
\* not-running error and changes nothing but the returned value.
C5_NotRunning ==
    [][ (SendCallStep /\ ~running)
          => /\ Returns("SendMessage")
             /\ ret'.err = "not running"
             /\ UNCHANGED <<config, running, queue, closed, cancelFunc, cancelled, worker,
                            started, sender, nextMsg, stats, now, panicked, deq, reqs,
                            sleeps, rejected, lastAttempt>> ]_vars

C5_Witness ==
    /\ ret.op = "SendMessage"
    /\ ret.err = "not running"
    /\ closed
    /\ ~running
    /\ started >= 1

\* C6: Start on a running service returns the already-running error, spawns no
\* worker and leaves running = true; Start on a non-running service spawns
\* exactly one worker and sets running = true.
C6_Start ==
    [][ Returns("Start")
          => IF running
             THEN /\ ret'.err = "already running"
                  /\ running'
                  /\ worker' = worker
                  /\ started' = started
             ELSE /\ ret'.err = "nil"
                  /\ running'
                  /\ Cardinality(SpawnedWorkers') = Cardinality(SpawnedWorkers) + 1
                  /\ Cardinality(LiveWorkers' \ LiveWorkers) = 1
                  /\ \A w \in SpawnedWorkers : worker'[w] = worker[w] ]_vars

C6_Witness ==
    /\ ret.op = "Start"
    /\ ret.err = "already running"
    /\ running
    /\ Cardinality(SpawnedWorkers) = 1

\* C7: Stop on a service that is not running returns nil and changes nothing
\* (the channel is not closed again, nothing panics); after every Stop that
\* returns, running is false.
C7_StopIdempotent ==
    [][ /\ (Returns("Stop") /\ ~running)
          => /\ ret'.err = "nil"
             /\ UNCHANGED <<config, running, queue, closed, cancelFunc, cancelled, worker,
                            started, sender, nextMsg, stats, now, panicked, deq, reqs,
                            sleeps, rejected, lastAttempt>>
        /\ Returns("Stop") => (~running' /\ ret'.err = "nil")
        /\ (~running /\ panicked = "none") => panicked' # "close of closed channel" ]_vars

C7_Witness ==
    /\ ret.op = "Stop"
    /\ ret.early
    /\ closed
    /\ ~running
    /\ panicked = "none"

C9_SuccessEndsRetries ==
    [][ /\ AttemptStep
          => LET o == lastAttempt'.outcome
                 m == lastAttempt'.msg
             IN /\ InSuccessRange(o) <=> (stats'.TotalSent = stats.TotalSent + 1)
                /\ ~InSuccessRange(o) => stats'.TotalSent = stats.TotalSent
                /\ InSuccessRange(o)
                     => /\ stats'.LastSent = now'
                        /\ now' > now
                        /\ stats'.TotalFailed = stats.TotalFailed
                        /\ CompletedAfter(m)
                        /\ reqs'[m] = lastAttempt'.attempt
        /\ ~AttemptStep => stats'.TotalSent = stats.TotalSent
        /\ \A m \in Msgs : Completed(m) => (reqs'[m] = reqs[m] /\ ~InFlight(m)') ]_vars

C9_Witness ==
    /\ lastAttempt.msg # 0
    /\ InSuccessRange(lastAttempt.outcome)
    /\ lastAttempt.attempt < config.RetryAttempts
    /\ lastAttempt.attempt >= 1
    /\ Completed(lastAttempt.msg)
    /\ stats.TotalSent >= 1

\* C10: total_sent and total_failed never decrease, and a step changes their sum
\* by the number of messages whose sendWebhook returns in it, which is 0 or 1; a
\* completed message stays completed.
C10_StatsMonotone ==
    [][ /\ stats'.TotalSent >= stats.TotalSent
        /\ stats'.TotalFailed >= stats.TotalFailed
        /\ (stats'.TotalSent + stats'.TotalFailed) - (stats.TotalSent + stats.TotalFailed)
             = (IF \E m \in Msgs : NewlyCompleted(m) THEN 1 ELSE 0)
        /\ \A m1, m2 \in Msgs : (NewlyCompleted(m1) /\ NewlyCompleted(m2)) => m1 = m2
        /\ \A m \in Msgs : Completed(m) => CompletedAfter(m) ]_vars

C10_Witness ==
    /\ stats.TotalSent >= 1
    /\ stats.TotalFailed >= 1
    /\ \E m \in Msgs : Completed(m) /\ reqs[m] >= 2

HealthStep == health'.seq # health.seq

\* C12: IsHealthy returns false if the service is not running, false if the URL
\* is empty, false if total_failed > 10 and the latest recorded outcome is a
\* failure, and true otherwise; it is false after 11 failures with no success
\* and true once a success has been recorded after them.
C12_IsHealthy ==
    [][ HealthStep
          => /\ health'.result
                  = ~( \/ ~running
                       \/ config.URL = ""
                       \/ (stats.TotalFailed > 10 /\ lastOutcome = "failure") )
             /\ (running /\ config.URL # "" /\ stats.TotalSent = 0 /\ stats.TotalFailed = 11)
                  => ~health'.result
             /\ (running /\ config.URL # "" /\ stats.TotalFailed >= 11
                   /\ lastOutcome = "success")
                  => health'.result ]_vars

C12_Witness ==
    /\ health.result
    /\ health.seq = 1
    /\ running
    /\ stats.TotalFailed = 11
    /\ stats.TotalSent = 1
    /\ stats.LastSent > stats.LastFailure
    /\ lastOutcome = "success"

\* Every message the sources are to emit.
AllSourceMsgs == {SourceMsg(i, k) : i \in Sources, k \in 1..MaxPerSource}

\* C13: the consumer receives no message twice and none that was not sent; the
\* output is closed at most once and only when every forwarder has exited, and
\* by then the consumer has received exactly the messages of all sources; no
\* forwarder is left sending on the closed output; and the merge cannot stop
\* before the consumer has seen the close.
C13_FanInComplete ==
    /\ Cardinality(Range(merged)) = Len(merged)
    /\ \A x \in Range(merged) : x[2] <= channels[x[1]].sent
    /\ outputClosed <= 1
    /\ outputClosed = 1
         => /\ \A i \in Sources : forwarder[i].pc = "done"
            /\ Range(merged) = {x \in AllSourceMsgs : x[2] <= channels[x[1]].len}
    /\ reader = "reading" => ENABLED MergeNext

C13_Witness ==
    /\ reader = "done"
    /\ outputClosed = 1
    /\ Len(merged) = NumSources * MaxPerSource
    /\ merged[1][1] = 2
    /\ merged[2][1] = 1

\* A step in which a call or handler of the named kind finishes.
Finishes(kind) == event'.seq # event.seq /\ event'.kind = kind

\* C14: a Manager.Stop entered after a successful Start (it holds m.mu and is
\* about to disconnect the default client) returns, and then the client's state
\* is false, the merged stream is closed and no client is registered.
C14_StopReturns ==
    \A g \in Stoppers :
      (call[Starter] = "returned" /\ call[g] = "lock")
        ~> (call[g] = "returned" /\ ~connected /\ webhookChanClosed = 1 /\ clients = {})

\* C15: a Disconnect called on a connected client returns, and then the
\* monitor's context is cancelled, the state is false, the session is closed and
\* the inbound channel is closed.
C15_DisconnectTerminates ==
    \A g \in Disconnectors :
      (call[g] = "lock" /\ connected)
        ~> (call[g] = "returned" /\ ctxDone /\ ~connected /\ client = "closed"
            /\ messageChanClosed = 1)

C17_ClientSend ==
    [][ Finishes("ClientSend")
          => IF ~connected
             THEN event'.err = "not connected" /\ event'.sent = "none"
             ELSE /\ event'.err # "not connected"
                  /\ (event'.op = "SendMessage" /\ event'.arg = "") => event'.sent = "chat"
                  /\ (event'.op = "SendMessage" /\ event'.arg # "")
                       => event'.sent = event'.arg
                  /\ event'.op = "SendMUCMessage" => event'.sent = "groupchat" ]_vars

C17_Witness ==
    /\ event.kind = "ClientSend"
    /\ event.op = "SendMessage"
    /\ event.arg = ""
    /\ event.sent = "chat"
    /\ event.err = "nil"
    /\ connected

\* C18: a Manager send made while no "default" client is registered returns
\* ErrNoDefaultClient without calling a client, and IsConnected returns false;
\* with a default client registered they return what the client's operation
\* returns; no default client is registered before Start, after a failed Start
\* and when a Stop returns.
C18_ManagerDelegates ==
    [][ /\ Finishes("ManagerSend")
          => IF "default" \notin clients
             THEN /\ event'.err = "no default client"
                  /\ event'.inner = "not called"
                  /\ event'.sent = "none"
             ELSE /\ event'.inner # "not called"
                  /\ event'.err = event'.inner
                  /\ ~connected <=> event'.err = "not connected"
        /\ Finishes("ManagerIsConnected")
          => event'.val = ("default" \in clients /\ connected)
        /\ call[Starter] \in {"idle", "failed"} => "default" \notin clients
        /\ \A g \in Stoppers :
             (call[g] # "returned" /\ call'[g] = "returned") => "default" \notin clients' ]_vars

C18_Witness ==
    /\ event.kind = "ManagerSend"
    /\ event.err = "no default client"
    /\ call[Starter] = "failed"
    /\ \E g \in Stoppers : call[g] = "returned"

\* C19: the handler can always take a stanza of the established session; a
\* stanza with body and sender is appended to the inbound channel if it holds
\* fewer messages than its capacity and dropped otherwise; a stanza without
\* body or sender leaves the channel as it is; the channel never holds more
\* than its capacity, and the handler never panics.
C19_InboundHandler ==
    [][ /\ Finishes("Stanza")
          => LET st == event'.stanza IN
             IF st.body # "" /\ st.from # ""
             THEN IF Len(messageChan) < MessageChanCap
                  THEN messageChan' = Append(messageChan, st)
                  ELSE messageChan' = messageChan
             ELSE messageChan' = messageChan
        /\ Len(messageChan') <= MessageChanCap
        /\ crashed' # "send on closed channel"
        /\ (client = "up" /\ crashed = "none")
             => \A st \in Stanzas : ENABLED HandleStanza(st) ]_vars

C19_Witness ==
    /\ event.kind = "Stanza"
    /\ event.stanza.body # ""
    /\ event.stanza.from # ""
    /\ Len(messageChan) = MessageChanCap
    /\ client = "up"

C22_ForwardingLoop ==
    [][ /\ loop'.pc = "handle" => taken' = Append(handed', loop'.msg)
        /\ loop'.pc # "handle" => taken' = handed'
        /\ (ret'.seq # ret.seq /\ ret'.op = "SendMessage" /\ ret'.err # "nil")
             => loop'.pc \in {"select", "sending"}
        /\ (loop'.pc = "exited" /\ loop.pc # "exited") => (loop.pc = "select" /\ loopCtxDone)
        /\ (Alive /\ loop.pc = "sending" /\ sender.pc = "idle") => ENABLED LoopReturn
        /\ (Alive /\ loop.pc = "select" /\ webhookChan # <<>>) => ENABLED LoopRecv ]_vars

C22_Witness ==
    /\ loop.pc = "select"
    /\ Len(handed) = 3
    /\ \E m \in rejected : origin[m] = handed[2]
    /\ ret.op = "SendMessage"
    /\ ret.err = "not running"
    /\ panicked = "none"

\* C30: the first delivery attempts follow the order of arrival at the client:
\* when the first request for a message is issued, every message that already
\* had a request arrived at the client before it.
C30_OrderPerClient ==
    [][ \A m \in Msgs :
          (reqs[m] = 0 /\ reqs'[m] = 1)
            => \A m2 \in Msgs : reqs[m2] >= 1 => origin[m2][2] < origin[m][2] ]_vars

\* C23: ProcessTestMessage(body, url) answers (body without the "[test]" prefix
\* and the white space after it, the rewritten URL, true) exactly for the bodies
\* whose trimmed form starts with the lower-case literal "[test]"; every other
\* body, among them "[test]" after other text, "[TEST] hi" and the empty body,
\* comes back unchanged with the URL unchanged and the flag false.
C23_OtherTextFirst == <<"h", "i", "[", "t", "e", "s", "t", "]">>
C23_UpperCase == <<"[", "T", "E", "S", "T", "]", " ", "h", "i">>

C23_ProcessTestMessage ==
    answer.fn = "ProcessTestMessage" =>
      LET body == probe.body
          url == ProbeURL(probe)
          t == TrimSpace(body)
          marked == Len(t) >= 6 /\ \A i \in 1..6 : t[i] = TestPrefix[i]
      IN /\ marked =>
              /\ answer.isTestMode
              /\ answer.url = getTestWebhookURL(url, probe.suffix)
              /\ \E j \in 6..Len(t) :
                    /\ \A i \in 7..j : IsSpace(t[i])
                    /\ j < Len(t) => ~IsSpace(t[j + 1])
                    /\ answer.body = SubSeq(t, j + 1, Len(t))
         /\ ~marked =>
              /\ ~answer.isTestMode
              /\ answer.url = url
              /\ answer.body = body
         /\ body \in {<<>>, C23_OtherTextFirst, C23_UpperCase} => ~answer.isTestMode

C23_Witness ==
    /\ answer.fn = "ProcessTestMessage"
    /\ probe.body = <<"[", "t", "e", "s", "t", "]", "\t", "h", "i">>
    /\ answer.body = <<"h", "i">>
    /\ answer.isTestMode
    /\ answer.url = ProductionURL \o DefaultSuffix

\* C24: getTestWebhookURL returns its input unchanged when the path contains
\* "webhook-test" and when the path does not contain "webhook" (a "webhook" in
\* the host or in the query does not count); otherwise it inserts the suffix
\* right after the first "webhook" of the path and keeps scheme, host, port,
\* the rest of the path and the query as they were.
C24_getTestWebhookURL ==
    (answer.fn = "getTestWebhookURL" /\ probe.kind = "parts") =>
      LET parts == probe.parts
      IN IF Contains(parts.path, WebhookTest) \/ ~Contains(parts.path, Webhook)
         THEN answer.url = RawURL(parts)
         ELSE answer.url =
                RawURL([parts EXCEPT
                          !.path = ReplaceFirst(parts.path, Webhook, Webhook \o probe.suffix)])

\* C25: with an empty configured URL every delivery attempt of every message,
\* test-mode or not, returns the URL-not-configured error without an HTTP
\* request, and once the attempts are used up exactly one failure is recorded,
\* whose last_error is that error.
C25_URLNotConfigured ==
    (dconfig.URL = <<>> /\ send.pc # "none") =>
        /\ issued = 0
        /\ tries >= 1 =>
             /\ lastTry.attempt = tries
             /\ lastTry.err = "webhook URL is not configured"
             /\ ~lastTry.issued
        /\ send.pc # "done" => stats.TotalFailed = 0 /\ stats.TotalSent = 0
        /\ (send.pc = "done" /\ dconfig.RetryAttempts >= 1) =>
             /\ tries = dconfig.RetryAttempts
             /\ stats.TotalFailed = 1
             /\ stats.TotalSent = 0
             /\ stats.LastError = "webhook URL is not configured"

C25_Witness ==
    /\ dconfig.URL = <<>>
    /\ dconfig.RetryAttempts = 2
    /\ msgBody = TestBody
    /\ send.pc = "done"
    /\ tries = 2
    /\ issued = 0
    /\ stats.TotalFailed = 1
    /\ stats.LastError = "webhook URL is not configured"

\* C29: for a test-mode message the stripping acts on the attempt's copy of the
\* payload: every attempt 1..retry_attempts examines the body as dequeued, and
\* goes to the rewritten test URL with the header Webhook-Test-Mode: true and
\* the stripped body; the message itself stays as dequeued.
C29_TestModeEveryAttempt ==
    (isTestMessage(msgBody) /\ dconfig.URL # <<>> /\ send.pc # "none") =>
        /\ send.payloadBody = msgBody
        /\ issued = tries
        /\ tries >= 1 =>
             /\ lastTry.attempt = tries
             /\ lastTry.examined = msgBody
             /\ lastTry.issued
             /\ lastTry.url = getTestWebhookURL(dconfig.URL, dconfig.Suffix)
             /\ lastTry.testMode
             /\ lastTry.body = removeTestPrefix(msgBody)

C29_Witness ==
    /\ msgBody = TestBody
    /\ dconfig.URL = ProductionURL
    /\ dconfig.Suffix = DefaultSuffix
    /\ tries = 2
    /\ lastTry.attempt = 2
    /\ lastTry.examined = TestBody
    /\ lastTry.url = ProductionURL \o DefaultSuffix
    /\ lastTry.testMode
    /\ lastTry.body = <<"h", "i">>
    /\ lastTry.err = "failed to send HTTP request"
    /\ send.pc = "done"
    /\ stats.TotalFailed = 1

\* C26: the response of GET /api/v1/webhook/status carries, in running, healthy,
\* queue_length, total_sent and total_failed, the values GetStatus() of the
\* Dispatch Manager returns at the moment of the request.
C26_StatusEndpoint ==
    [][ apiStatus' # apiStatus =>
          /\ apiStatus'.running = GetStatus.running
          /\ apiStatus'.healthy = GetStatus.healthy
          /\ apiStatus'.queue_length = GetStatus.queue_length
          /\ apiStatus'.total_sent = GetStatus.total_sent
          /\ apiStatus'.total_failed = GetStatus.total_failed ]_vars

\* C27: a SendMessage that runs concurrently with Stop never sends on the queue
\* channel after Stop has closed it: it returns nil, the not-running error or
\* the queue-full error and the process does not panic.  Stated for the first
\* lifecycle of the service, where the channel is closed by no earlier Stop.
C27_SendVersusStop ==
    [][ started <= 1 =>
          /\ panicked' # "send on closed channel"
          /\ Returns("SendMessage") => ret'.err \in {"nil", "not running", "queue full"} ]_vars

\* C28: after Start(), Stop(), Start() the service works as after the first
\* Start: a SendMessage on the running service does not send on a closed
\* channel and a later Stop() does not close the queue channel a second time.
C28_Restart ==
    [][ started >= 2 =>
          /\ panicked' # "close of closed channel"
          /\ (panicked = "none" /\ panicked' = "send on closed channel") => ~running ]_vars

\* C39: the test-mode URL rewrite is idempotent for every configured suffix:
\* getTestWebhookURL applied to the URL it returned gives that URL back, so a
\* URL that already carries the suffix does not get it a second time.
C39_RewriteIdempotent ==
    [][ answer'.fn = "getTestWebhookURL again" => answer'.url = answer.url ]_vars

\* C31: a worker whose context Stop() has cancelled while it is inside a
\* delivery (in an attempt or in a backoff sleep) is not interrupted: it goes
\* through the remaining attempts and sleeps, records the outcome, and the
\* goroutine then exits.
C31_InFlightCompletes ==
    \A w \in Workers :
        (cancelled[w] /\ worker[w].pc \in {"attempt", "sleep"})
          ~> (worker[w].pc = "exited" /\ worker[w].msg = 0)

\* C36: Client.Connect.  When the transport-level connect fails it returns an
\* error, the flag stays false and no monitor runs; when it succeeds the flag
\* becomes true and the monitor loop runs if and only if reconnection is
\* enabled; with reconnection disabled no reconnect attempt is ever made.
C36_Connect ==
    [][ /\ call'[Starter] = "failed" => (~connected' /\ monitor'.pc = "none")
        /\ (call[Starter] = "setConnected" /\ call'[Starter] = "returned") =>
              /\ connected'
              /\ reconnection.Enabled => monitor'.pc = "timer"
              /\ ~reconnection.Enabled => monitor'.pc = "exited"
        /\ ~reconnection.Enabled =>
              /\ monitor'.pc \in {"none", "exited"}
              /\ cycle'.n = 0 ]_vars

C36_Witness ==
    /\ call[Starter] = "returned"
    /\ ~reconnection.Enabled
    /\ connected
    /\ client = "down"
    /\ monitor.pc = "exited"
    /\ cycle.n = 0

\* C37: automatic reconnection is live: once the session is lost after a
\* successful Connect, with reconnection enabled and no Disconnect called, the
\* connection flag eventually becomes false and the monitor eventually starts a
\* reconnection cycle.
C37_ReconnectionLive ==
    (client = "down" /\ call[Starter] = "returned" /\ reconnection.Enabled)
      ~> \/ ~connected /\ cycle.n >= 1
         \/ \E g \in DisconnectCallers : call[g] # "idle"

\* C35: the registry's dispatcher never blocks forwarding into the merged
\* inbound stream: with the stream's buffer full the message is dropped and the
\* dispatcher goes on with the next one, so the forwarder and the client's
\* channel keep draining also while nothing consumes the stream.
C35_DispatcherNeverBlocks ==
    [][ /\ (Alive /\ dispatch.pc = "forward") => ENABLED DispatcherForward
        /\ (dispatch.pc = "forward" /\ dispatch'.pc # "forward") =>
              /\ dispatch'.pc = "select"
              /\ webhookChan' = IF Len(webhookChan) < WebhookChanCap
                                THEN Append(webhookChan, dispatch.msg)
                                ELSE webhookChan
        /\ (Alive /\ dispatch.pc = "select" /\ forwarder[1].pc = "send")
              => ENABLED DispatcherRecv
        /\ (Alive /\ forwarder[1].pc = "range" /\ messageChan # <<>>)
              => ENABLED ClientForwarderRecv ]_vars

C35_Witness ==
    /\ loop.pc = "none"
    /\ arrived = 3
    /\ webhookChan = <<SourceMsg(1, 1)>>
    /\ messageChan = <<>>
    /\ forwarder[1].pc = "range"
    /\ dispatch.pc = "select"
    /\ Alive

\* C33: the forwarding loop of the Dispatch Manager returns only from its
\* select, and only when its context is done or the inbound stream is closed
\* and drained; a stop of the Delivery Queue never ends it, and with the queue
\* stopped a message waiting in the stream can still be received and is then
\* handed to SendMessage, which answers "not running" and leaves the loop at
\* its select.  Once the context is done or the stream is closed the loop
\* eventually has returned (or the process has ended in a panic).
C33_LoopTermination ==
    /\ [][ /\ (loop.pc # "exited" /\ loop'.pc = "exited") =>
                 /\ loop.pc = "select"
                 /\ loopCtxDone \/ StreamEnded
           /\ (running /\ ~running') => loop' = loop
           /\ (Alive /\ ~running /\ loop.pc = "select" /\ webhookChan # <<>>) =>
                 ENABLED LoopRecv
           /\ (Alive /\ ~running /\ loop.pc = "handle" /\ sender.pc = "idle") =>
                 ENABLED LoopSendMessage
           /\ (~running /\ loop.pc = "handle" /\ loop'.pc # "handle") =>
                 /\ loop'.pc = "select"
                 /\ handed' = Append(handed, loop.msg)
                 /\ ret' = Returned("SendMessage", "not running", TRUE)
         ]_vars
    /\ (loop.pc # "none" /\ (loopCtxDone \/ webhookChanClosed >= 1))
          ~> (loop.pc = "exited" \/ ~Alive)

\* The queue was stopped with the context live and the stream open, a message
\* that arrived afterwards was read and offered to the stopped queue, and the
\* loop is back at its select.
C33_Witness ==
    /\ Alive
    /\ started = 1
    /\ ~running
    /\ ~loopCtxDone
    /\ webhookChanClosed = 0
    /\ loop.pc = "select"
    /\ handed = <<SourceMsg(1, 1)>>
    /\ ret.op = "SendMessage"
    /\ ret.err = "not running"

\* The loop has returned because the stream was closed, with a live context.
C33_Closed ==
    /\ loop.pc = "exited"
    /\ ~loopCtxDone
    /\ webhookChanClosed = 1
    /\ taken = <<SourceMsg(1, 1), SourceMsg(1, 2)>>

\* C38: whatever Manager.Start calls have been made, at most one dispatcher
\* goroutine runs, and a client that a returned Start connected is the client
\* registered under "default".
C38_OneDispatcherNoOrphan ==
    /\ Cardinality({k \in StartCalls : registry.disp[k].pc \in {"collect", "select"}}) <= 1
    /\ \A k \in StartCalls :
          (registry.start[k] = "returned" /\ registry.conn[k] = "up") => registry.default = k

\* Start was called twice and no Stop: both calls returned nil, two dispatchers
\* wait at their select, and the client of the first call is connected and no
\* longer registered.
C38_StartTwice ==
    /\ registry.stops = 0
    /\ registry.start[1] = "returned"
    /\ registry.start[2] = "returned"
    /\ registry.default = 2
    /\ registry.conn[1] = "up"
    /\ registry.disp[1] = [pc |-> "select", chans |-> {1}]
    /\ registry.disp[2] = [pc |-> "select", chans |-> {2}]

\* C32: no goroutine holds one of the four mutexes while it is in an HTTP
\* delivery attempt, in a backoff sleep or at a channel send or receive (the
\* worker's select, SendMessage's select on the queue, the dispatcher's
\* select); hence a Delivery Queue call that needs a lock while a delivery is
\* in flight can take it, unless a worker is just inside updateStats.
C32_NoLockWhileBlocked ==
    /\ \A k \in 1..MaxStarts :
          lk.worker[k].pc \in {"select", "http", "sleep"} => Held(<<"worker", k>>) = {}
    /\ lk.api.pc = "send" => Held(Api) = {}
    /\ lk.disp = "select" => Held(Dispatcher) = {}
    /\ ( /\ ~lk.panicked
         /\ \E k \in 1..MaxStarts : lk.worker[k].pc \in {"http", "sleep"}
         /\ \A k \in 1..MaxStarts : lk.worker[k].pc # "updating"
         /\ lk.api.fn \in {"Start", "Stop", "SendMessage", "GetStats", "IsHealthy"}
         /\ lk.api.pc \in {"lock", "stats"} )
       => ENABLED (LkStart \/ LkStop \/ LkSendMessage \/ LkGetStats \/ LkIsHealthy)

\* A delivery is in its second attempt while GetStats holds the read lock of
\* the statistics, and Stop was able to run meanwhile.
C32_Witness ==
    /\ ~lk.panicked
    /\ lk.worker[1] = [pc |-> "http", attempt |-> 2]
    /\ ~lk.running
    /\ lk.api = [fn |-> "GetStats", pc |-> "rlocked"]
    /\ lk.statsMu.r = {Api}

====
